---- MODULE Spec2Model ----
(***************************************************************************)
(* Replicated SQL access layer (server/channels/store/sqlstore/store.go).  *)
(*                                                                         *)
(* SqlStore owns one primary connection (masterX), a set of read replica   *)
(* slots (ReplicaXs), a set of search replica slots (searchReplicaXs) and  *)
(* lag-probe connections (replicaLagHandles).  Readers pick a connection   *)
(* with GetReplica / GetSearchReplicaX / GetInternalReplicaDB, a           *)
(* background goroutine (monitorReplicas) reconnects offline slots, and    *)
(* Close shuts the layer down.  Every goroutine is a process of the model; *)
(* every atomic memory access of the code is one step.                     *)
(***************************************************************************)
EXTENDS Integers, Sequences, FiniteSets, TLC

(* ------------------------------ bounds -------------------------------- *)
\* Largest number of configured read replicas (settings.DataSourceReplicas).
MaxReplicas == 2
\* Largest number of configured search replicas.
MaxSearchReplicas == 1
\* Largest number of configured lag targets (settings.ReplicaLagSettings).
MaxLagHandles == 2
\* The rotation counters are int64; a run follows at most this many
\* increments of each counter.
MaxCounter == 3
\* The rotation counters of a store that has served for long stand
\* Headroom below MaxInt64 when the run begins.
Headroom == 1
\* The duration d passed to RecycleDBConnections, in seconds.
RecycleDuration == 1

\* Largest number of errors.Wrap layers around an error.
MaxWraps == 1
\* Number of errors classified in one run.
MaxClassified == 2

\* Number of migration definitions.
MaxMigrations == 2

\* RecycleDBConnections: "an additional 2 seconds of scheduling delay".
SchedulingDelay == 2
\* DBPingAttempts
DBPingAttempts == 5
\* minimumRequiredPostgresVersion
minimumRequiredPostgresVersion == 130000
\* The width of rrCounter and srCounter (int64).
Int64Bits == 64

\* The reader goroutine whose calls are followed step by step.  The other
\* readers act on the shared state only by incrementing the rotation
\* counters (OtherGetReplicaAdd, OtherGetSearchReplicaXAdd).
Callers == {"reader"}
\* The goroutines that call Close.
Closers == {"close1", "close2"}

VARIABLES
    settings,           \* model.SqlSettings: numbers of configured replicas
    rrCounter,          \* SqlStore.rrCounter
    srCounter,          \* SqlStore.srCounter
    masterX,            \* SqlStore.masterX
    ReplicaXs,          \* SqlStore.ReplicaXs: sequence of atomic pointers
    searchReplicaXs,    \* SqlStore.searchReplicaXs
    replicaLagHandles,  \* SqlStore.replicaLagHandles
    lockedToMaster,     \* SqlStore.lockedToMaster
    license,            \* SqlStore.license ("nil" or "license")
    quitMonitor,        \* SqlStore.quitMonitor: "open" or "closed"
    wgMonitor,          \* SqlStore.wgMonitor: the WaitGroup counter
    closedConns,        \* connections on which Close has been called
    shortLived,         \* connections whose max lifetime is the recycle duration
    collectors,         \* metrics sink: registered <<connection, label>> pairs
    mon,                \* the monitorReplicas goroutine
    call,               \* the reader goroutines
    closer,             \* the goroutines calling Close
    recycler,           \* the goroutine calling RecycleDBConnections
    sleepTime,          \* how long the time.Sleep in progress in RecycleDBConnections lasts
    returned,           \* tally: how many GetReplica calls returned each read slot
    accesses,           \* log: the reads and writes of the license and lockedToMaster fields
    tick,               \* log: per slot, the connection attempts of the tick in progress
    reachable,          \* environment: per slot, whether its database answers
    origin,             \* where the rotation counters stood when the run began
    skipMigrations,     \* SqlStore.skipMigrations
    boot,               \* the goroutine calling New
    lag,                \* the goroutine calling ReplicaLagAbs / ReplicaLagTime
    migration,          \* the database schema and the processes applying migrations to it
    classified          \* the errors passed to IsDuplicate and its results

vars == <<settings, rrCounter, srCounter, masterX, ReplicaXs, searchReplicaXs,
          replicaLagHandles, lockedToMaster, license, quitMonitor, wgMonitor,
          closedConns, shortLived, collectors, mon, call, closer, recycler,
          sleepTime, returned, accesses, tick, reachable, origin, skipMigrations,
          boot, lag, migration, classified>>

\* New, the lag probes and the migrations: the serving operations leave
\* them alone.
bootLagFrame == <<origin, skipMigrations, boot, lag, migration, classified>>

(* --------------------------- connections ------------------------------ *)
\* A *sql.DB opened by sqlUtils.SetupConnection: the pool it was opened
\* for, the slot, and who opened it.
Conn(pool, slot, by) == [pool |-> pool, slot |-> slot, by |-> by]

\* The nil *sqlx.DB of an offline placeholder.
NoDB == Conn("nil", 0, "nil")

\* newSqlxDBWrapper: a wrapper around a live connection, marked online.
newSqlxDBWrapper(db) == [DB |-> db, isOnline |-> TRUE]

\* &sqlxDBWrapper{isOnline: &atomic.Bool{}}: no connection, offline.
OfflineWrapper == [DB |-> NoDB, isOnline |-> FALSE]

\* sqlxDBWrapper.Online
Online(w) == w.isOnline

\* No wrapper: the result of a call that has not returned.
NoWrapper == [DB |-> Conn("none", 0, "none"), isOnline |-> FALSE]

\* The variables a reader, the monitor, Close and the recycler leave alone.
readerFrame == <<settings, masterX, ReplicaXs, searchReplicaXs,
                 replicaLagHandles, lockedToMaster, license, quitMonitor,
                 wgMonitor, closedConns, shortLived, collectors, mon, closer,
                 recycler, sleepTime, tick, reachable, bootLagFrame>>
adminFrame == <<settings, rrCounter, srCounter, masterX, ReplicaXs,
                searchReplicaXs, replicaLagHandles, quitMonitor, wgMonitor,
                closedConns, shortLived, collectors, mon, closer, recycler,
                sleepTime, returned, tick, reachable, bootLagFrame>>

\* Go slices are indexed from 0, TLA+ sequences from 1.
At(s, i) == s[i + 1]

\* Mutant of InitWrapper: a failed connection is stored as an online wrapper.
InitWrapperAlwaysOnline(pool, i, ok) == newSqlxDBWrapper(Conn(pool, i, "init"))

\* The wrapper initConnection stores in slot i of a pool.
InitWrapper(pool, i, ok) ==
    IF ok THEN newSqlxDBWrapper(Conn(pool, i, "init")) ELSE OfflineWrapper

\* Metrics labels used by initConnection and by monitorReplicas.
InitLabel(pool, i) ==
    IF pool = "replica" THEN <<"replica-", i>> ELSE <<"searchreplica-", i>>
MonitorLabel(pool, i) ==
    IF pool = "replica" THEN <<"replica-", i>> ELSE <<"search-replica-", i>>

\* All sequences of length n over S.
SeqsOfLen(S, n) == [1..n -> S]

(* ------------------- accesses to the routing flags -------------------- *)
\* One read or write of a field of SqlStore: by which goroutine, and
\* whether the goroutine held ss.licenseMutex while it made the access.
AccessOf(kind, by, mutex) == [kind |-> kind, by |-> by, mutex |-> mutex]

\* The log after one more access to a field; fields outside the log are
\* not recorded.
Access(field, kind, by, mutex) ==
    [f \in DOMAIN accesses |->
       IF f = field THEN accesses[f] \cup {AccessOf(kind, by, mutex)} ELSE accesses[f]]

\* The guards of GetReplica and GetInternalReplicaDB evaluate
\* ss.lockedToMaster, with no lock taken, when the first operand of || is
\* false.
GuardAccess(c) ==
    IF settings.DataSourceReplicas = 0 THEN accesses
    ELSE Access("lockedToMaster", "read", c, FALSE)

\* hasLicense reads ss.license between licenseMutex.Lock() and Unlock().
hasLicenseAccess(c) == Access("license", "read", c, TRUE)

(* ----------------------------- readers -------------------------------- *)
\* A reader goroutine: pc is its position in the code, i and rrNum are the
\* locals of the probing loop, result is the wrapper it returned.  env
\* records what held when the call was entered ("locked": locked to
\* master; "nolicense": not locked, no license; "routed_on" / "routed_off":
\* licensed, not locked, some / no read slot online) and becomes "unstable"
\* when a routing flag is changed while the call is running.  lic is the
\* license GetLicense returned.
IdleCall == [pc |-> "idle", op |-> "none", i |-> 0, rrNum |-> 0,
             result |-> NoWrapper, env |-> "none", lic |-> "none"]

\* Mutant of hasLicense: a license is always found.
hasLicenseAlways == TRUE

\* SqlStore.hasLicense
hasLicense == license # "nil"

\* SqlStore.GetMaster
GetMaster == masterX

AnyOnline(slots) == \E k \in 1..Len(slots) : Online(slots[k])

EnvNow ==
    IF lockedToMaster THEN "locked"
    ELSE IF ~hasLicense THEN "nolicense"
    ELSE IF AnyOnline(ReplicaXs) THEN "routed_on" ELSE "routed_off"

\* A call returns wrapper w; its locals are gone.
Finish(c, w) == [call[c] EXCEPT !.pc = "done", !.result = w, !.i = 0, !.rrNum = 0]

\* 2^e modulo n.
RECURSIVE Pow2Mod(_, _)
Pow2Mod(e, n) == IF e = 0 THEN 1 % n ELSE (2 * Pow2Mod(e - 1, n)) % n

\* x % n in Go for the int64 x = MaxInt64 - d, d small: x is not negative.
RemBelowMax(d, n) == (Pow2Mod(Int64Bits - 1, n) - 1 - d) % n

\* x % n in Go for the int64 x = MinInt64 + d, d small: x is negative, and
\* the remainder of a negative dividend is zero or negative.
RemAboveMin(d, n) == 0 - ((Pow2Mod(Int64Bits - 1, n) - d) % n)

\* The int64 a counter holds is origin + counter, where counter is the
\* number of increments the run has seen: origin is 0 ("zero") or
\* MaxInt64 - Headroom ("MaxInt64"), and atomic.AddInt64 wraps from
\* MaxInt64 to MinInt64.

\* Mutant of RoundRobin: the rotation index does not follow the counter.
RoundRobinStuck(counter, n) == 0

\* atomic.AddInt64(&counter, 1) % int64(len(slots))
RoundRobin(counter, n) ==
    IF origin = "zero" THEN (counter + 1) % n
    ELSE IF counter + 1 <= Headroom THEN RemBelowMax(Headroom - (counter + 1), n)
    ELSE RemAboveMin(counter + 1 - Headroom - 1, n)

\* slots[rrNum] with an rrNum outside the slice panics (index out of
\* range).
InRange(slots, rrNum) == rrNum \in 0..(Len(slots) - 1)

\* Mutant of ProbeOnline: the probe does not look at the online flag.
ProbeOnlineAlways(slots, rrNum) == TRUE

\* The probe of the loops: slots[rrNum].Load().Online()
ProbeOnline(slots, rrNum) == Online(At(slots, rrNum))

\* Mutant of GetReplicaLocked: the guard does not read lockedToMaster.
GetReplicaLockedNoFlag == settings.DataSourceReplicas = 0

\* GetReplica: len(DataSourceReplicas) == 0 || ss.lockedToMaster
GetReplicaLocked == settings.DataSourceReplicas = 0 \/ lockedToMaster

\* GetReplica is entered, by a reader or from GetSearchReplicaX: the first
\* two operands of its guard (the flag is read without the mutex).
GetReplicaGuard(c) ==
    /\ \/ /\ call[c].pc \in {"idle", "done"}
          /\ call' = [call EXCEPT ![c] =
                        IF GetReplicaLocked
                        THEN [IdleCall EXCEPT !.pc = "done", !.op = "GetReplica",
                                              !.env = EnvNow, !.result = GetMaster]
                        ELSE [IdleCall EXCEPT !.pc = "rr_license", !.op = "GetReplica",
                                              !.env = EnvNow]]
       \/ /\ call[c].pc = "rr_guard"
          /\ call' = [call EXCEPT ![c] =
                        IF GetReplicaLocked
                        THEN Finish(c, GetMaster)
                        ELSE [call[c] EXCEPT !.pc = "rr_license"]]
    /\ accesses' = GuardAccess(c)
    /\ UNCHANGED <<rrCounter, srCounter, returned, readerFrame>>

\* GetReplica, last operand of the guard: !ss.hasLicense()
GetReplicaLicense(c) ==
    /\ call[c].pc = "rr_license"
    /\ call' = [call EXCEPT ![c] =
                  IF ~hasLicense
                  THEN Finish(c, GetMaster)
                  ELSE [call[c] EXCEPT !.pc = "rr_add", !.i = 0]]
    /\ accesses' = hasLicenseAccess(c)
    /\ UNCHANGED <<rrCounter, srCounter, returned, readerFrame>>

\* GetReplica, loop body: rrNum := atomic.AddInt64(&ss.rrCounter, 1) % len
GetReplicaAdd(c) ==
    /\ call[c].pc = "rr_add"
    /\ rrCounter < MaxCounter
    /\ rrCounter' = rrCounter + 1
    /\ call' = [call EXCEPT ![c].pc = "rr_online",
                            ![c].rrNum = RoundRobin(rrCounter, Len(ReplicaXs))]
    /\ UNCHANGED <<srCounter, returned, accesses, readerFrame>>

\* Mutant of LoopContinues: the loop is never left on a failed probe.
LoopContinuesAlways(i, slots) == TRUE

\* The loops of GetReplica and GetSearchReplicaX after a failed probe:
\* i++; i < len(slots)
LoopContinues(i, slots) == i + 1 < Len(slots)

\* GetReplica, loop body: if ss.ReplicaXs[rrNum].Load().Online(); on a
\* failed probe i++ and the loop condition i < len(ss.ReplicaXs); when the
\* loop is left, "If all replicas are down, then go with master."
GetReplicaOnline(c) ==
    /\ call[c].pc = "rr_online"
    /\ call' = [call EXCEPT ![c] =
                  IF ~InRange(ReplicaXs, call[c].rrNum)
                  THEN [call[c] EXCEPT !.pc = "panic"]
                  ELSE IF ProbeOnline(ReplicaXs, call[c].rrNum)
                  THEN [call[c] EXCEPT !.pc = "rr_load"]
                  ELSE IF LoopContinues(call[c].i, ReplicaXs)
                       THEN [call[c] EXCEPT !.pc = "rr_add", !.i = @ + 1]
                       ELSE Finish(c, GetMaster)]
    /\ UNCHANGED <<rrCounter, srCounter, returned, accesses, readerFrame>>

\* The tally after one more call has returned read slot rrNum; slots
\* outside the tally are not counted.
Tally(rrNum) ==
    [k \in DOMAIN returned |-> returned[k] + (IF k = rrNum + 1 THEN 1 ELSE 0)]

\* GetReplica, loop body: return ss.ReplicaXs[rrNum].Load()
GetReplicaLoad(c) ==
    /\ call[c].pc = "rr_load"
    /\ call' = [call EXCEPT ![c] = Finish(c, At(ReplicaXs, call[c].rrNum))]
    /\ returned' = Tally(call[c].rrNum)
    /\ UNCHANGED <<rrCounter, srCounter, accesses, readerFrame>>

\* Mutant of GetSearchReplicaXToMaster: the license is not tested.
GetSearchReplicaXProbesUnlicensed == FALSE

\* GetSearchReplicaX: the first test, !ss.hasLicense()
GetSearchReplicaXToMaster == ~hasLicense

\* GetSearchReplicaX is entered: the license test, then the test for zero
\* configured search replicas, which calls GetReplica.
GetSearchReplicaXGuard(c) ==
    /\ call[c].pc \in {"idle", "done"}
    /\ call' = [call EXCEPT ![c] =
                  [IdleCall EXCEPT
                     !.op = "GetSearchReplicaX",
                     !.env = EnvNow,
                     !.pc = IF GetSearchReplicaXToMaster THEN "done"
                            ELSE IF settings.DataSourceSearchReplicas = 0
                                 THEN "rr_guard" ELSE "sr_add",
                     !.result = IF GetSearchReplicaXToMaster
                                THEN GetMaster ELSE NoWrapper]]
    /\ accesses' = hasLicenseAccess(c)
    /\ UNCHANGED <<rrCounter, srCounter, returned, readerFrame>>

\* GetSearchReplicaX, loop body: atomic.AddInt64(&ss.srCounter, 1) % len
GetSearchReplicaXAdd(c) ==
    /\ call[c].pc = "sr_add"
    /\ srCounter < MaxCounter
    /\ srCounter' = srCounter + 1
    /\ call' = [call EXCEPT ![c].pc = "sr_online",
                            ![c].rrNum = RoundRobin(srCounter, Len(searchReplicaXs))]
    /\ UNCHANGED <<rrCounter, returned, accesses, readerFrame>>

\* GetSearchReplicaX, loop body: the Online test; when every probe has
\* failed, "go with replica": GetReplica is called.
GetSearchReplicaXOnline(c) ==
    /\ call[c].pc = "sr_online"
    /\ call' = [call EXCEPT ![c] =
                  IF ~InRange(searchReplicaXs, call[c].rrNum)
                  THEN [call[c] EXCEPT !.pc = "panic"]
                  ELSE IF ProbeOnline(searchReplicaXs, call[c].rrNum)
                  THEN [call[c] EXCEPT !.pc = "sr_load"]
                  ELSE IF LoopContinues(call[c].i, searchReplicaXs)
                       THEN [call[c] EXCEPT !.pc = "sr_add", !.i = @ + 1]
                       ELSE [call[c] EXCEPT !.pc = "rr_guard", !.i = 0, !.rrNum = 0]]
    /\ UNCHANGED <<rrCounter, srCounter, returned, accesses, readerFrame>>

\* GetSearchReplicaX, loop body: return ss.searchReplicaXs[rrNum].Load()
GetSearchReplicaXLoad(c) ==
    /\ call[c].pc = "sr_load"
    /\ call' = [call EXCEPT ![c] = Finish(c, At(searchReplicaXs, call[c].rrNum))]
    /\ UNCHANGED <<rrCounter, srCounter, returned, accesses, readerFrame>>

\* GetInternalReplicaDB is entered: len(DataSourceReplicas) == 0 ||
\* ss.lockedToMaster
GetInternalReplicaDBGuard(c) ==
    /\ call[c].pc \in {"idle", "done"}
    /\ call' = [call EXCEPT ![c] =
                  IF settings.DataSourceReplicas = 0 \/ lockedToMaster
                  THEN [IdleCall EXCEPT !.pc = "done", !.op = "GetInternalReplicaDB",
                                        !.env = EnvNow, !.result = GetMaster]
                  ELSE [IdleCall EXCEPT !.pc = "ir_license",
                                        !.op = "GetInternalReplicaDB",
                                        !.env = EnvNow]]
    /\ accesses' = GuardAccess(c)
    /\ UNCHANGED <<rrCounter, srCounter, returned, readerFrame>>

\* GetInternalReplicaDB: !ss.hasLicense()
GetInternalReplicaDBLicense(c) ==
    /\ call[c].pc = "ir_license"
    /\ call' = [call EXCEPT ![c] =
                  IF ~hasLicense
                  THEN Finish(c, GetMaster)
                  ELSE [call[c] EXCEPT !.pc = "ir_add"]]
    /\ accesses' = hasLicenseAccess(c)
    /\ UNCHANGED <<rrCounter, srCounter, returned, readerFrame>>

\* GetInternalReplicaDB: rrNum := atomic.AddInt64(&ss.rrCounter, 1) % len
GetInternalReplicaDBAdd(c) ==
    /\ call[c].pc = "ir_add"
    /\ rrCounter < MaxCounter
    /\ rrCounter' = rrCounter + 1
    /\ call' = [call EXCEPT ![c].pc = "ir_load",
                            ![c].rrNum = RoundRobin(rrCounter, Len(ReplicaXs))]
    /\ UNCHANGED <<srCounter, returned, accesses, readerFrame>>

\* GetInternalReplicaDB: return ss.ReplicaXs[rrNum].Load().DB.DB; the DB of
\* an offline placeholder is nil, and dereferencing it panics.
GetInternalReplicaDBLoad(c) ==
    /\ call[c].pc = "ir_load"
    /\ call' = [call EXCEPT ![c] =
                  IF ~InRange(ReplicaXs, call[c].rrNum)
                  THEN [call[c] EXCEPT !.pc = "panic"]
                  ELSE IF At(ReplicaXs, call[c].rrNum).DB = NoDB
                  THEN [call[c] EXCEPT !.pc = "panic"]
                  ELSE Finish(c, At(ReplicaXs, call[c].rrNum))]
    /\ UNCHANGED <<rrCounter, srCounter, returned, accesses, readerFrame>>

\* SqlStore.GetLicense: return ss.license, no lock taken.  The value read
\* is the license stored at that moment.
GetLicense(c) ==
    /\ call[c].pc \in {"idle", "done"}
    /\ call' = [call EXCEPT ![c] =
                  [IdleCall EXCEPT !.pc = "done", !.op = "GetLicense",
                                   !.env = EnvNow, !.lic = license]]
    /\ accesses' = Access("license", "read", c, FALSE)
    /\ UNCHANGED <<rrCounter, srCounter, returned, readerFrame>>

\* Another goroutine in GetReplica or GetInternalReplicaDB passes the guard
\* and executes atomic.AddInt64(&ss.rrCounter, 1).
OtherGetReplicaAdd ==
    /\ ~GetReplicaLocked
    /\ hasLicense
    /\ rrCounter < MaxCounter
    /\ rrCounter' = rrCounter + 1
    /\ UNCHANGED <<srCounter, call, returned, accesses, readerFrame>>

\* Another goroutine in GetSearchReplicaX passes the guard and executes
\* atomic.AddInt64(&ss.srCounter, 1).
OtherGetSearchReplicaXAdd ==
    /\ ~GetSearchReplicaXToMaster
    /\ settings.DataSourceSearchReplicas # 0
    /\ srCounter < MaxCounter
    /\ srCounter' = srCounter + 1
    /\ UNCHANGED <<rrCounter, call, returned, accesses, readerFrame>>

(* ------------------------ administrative flags ------------------------ *)
InFlight(c) == call[c].pc \notin {"idle", "done", "panic"}
Unstable(changed) ==
    [c \in Callers |->
       IF changed /\ InFlight(c) THEN [call[c] EXCEPT !.env = "unstable"] ELSE call[c]]

\* The goroutine that changes the routing flags.
Admin == "admin"

\* SqlStore.LockToMaster: ss.lockedToMaster = true, no lock taken
LockToMaster ==
    /\ lockedToMaster' = TRUE
    /\ call' = Unstable(~lockedToMaster)
    /\ accesses' = Access("lockedToMaster", "write", Admin, FALSE)
    /\ UNCHANGED <<license, adminFrame>>

\* SqlStore.UnlockFromMaster: ss.lockedToMaster = false, no lock taken
UnlockFromMaster ==
    /\ lockedToMaster' = FALSE
    /\ call' = Unstable(lockedToMaster)
    /\ accesses' = Access("lockedToMaster", "write", Admin, FALSE)
    /\ UNCHANGED <<license, adminFrame>>

\* SqlStore.UpdateLicense, under licenseMutex
UpdateLicense(l) ==
    /\ license' = l
    /\ call' = Unstable(license # l)
    /\ accesses' = Access("license", "write", Admin, TRUE)
    /\ UNCHANGED <<lockedToMaster, adminFrame>>

(* ----------------------------- monitor -------------------------------- *)
\* The slots of a pool.
Slots(pool) == IF pool = "replica" THEN ReplicaXs ELSE searchReplicaXs

\* monitorReplicas ranges over ss.ReplicaXs, then over ss.searchReplicaXs,
\* and then waits in the select again.
MonitorAt(pool, idx) == [mon EXCEPT !.pc = "setup", !.pool = pool, !.idx = idx,
                                    !.handle = NoDB]
MonitorSelect == [mon EXCEPT !.pc = "select", !.pool = "replica", !.idx = 0,
                             !.handle = NoDB]
MonitorFirst ==
    IF Len(ReplicaXs) > 0 THEN MonitorAt("replica", 0)
    ELSE IF Len(searchReplicaXs) > 0 THEN MonitorAt("search", 0)
    ELSE MonitorSelect

\* Mutant of MonitorAdvance: the tick ends after the slot.
MonitorAdvanceStops == MonitorSelect

\* After a slot: the next slot of the pool, then the first search slot,
\* then the select.
MonitorAdvance ==
    IF mon.idx + 1 < Len(Slots(mon.pool)) THEN MonitorAt(mon.pool, mon.idx + 1)
    ELSE IF mon.pool = "replica" /\ Len(searchReplicaXs) > 0 THEN MonitorAt("search", 0)
    ELSE MonitorSelect

\* Mutant of setDB: the wrapper is stored in every slot of the pool.
setDBEverySlot(slots, idx, handle) ==
    [k \in 1..Len(slots) |-> newSqlxDBWrapper(handle)]

\* Mutant of setDB: the wrapper is published without being marked online.
setDBOffline(slots, idx, handle) ==
    [slots EXCEPT ![idx + 1] = [DB |-> handle, isOnline |-> FALSE]]

\* The slots, by pool and index.
SlotKeys ==
    {<<"replica", i>> : i \in 0..(Len(ReplicaXs) - 1)}
        \cup {<<"search", i>> : i \in 0..(Len(searchReplicaXs) - 1)}

\* The log when a tick begins: for every logged slot whether it is offline
\* now, and no connection attempt yet.
TickBegin ==
    [s \in DOMAIN tick |->
       [offline |-> ~Online(At(Slots(s[1]), s[2])), attempts |-> 0]]

\* The log after sqlUtils.SetupConnection has been called for a slot.
TickAttempt(pool, idx) ==
    [s \in DOMAIN tick |->
       IF s = <<pool, idx>> THEN [tick[s] EXCEPT !.attempts = @ + 1] ELSE tick[s]]

\* The outcomes of sqlUtils.SetupConnection(..., 1) for a slot: success or
\* failure; where the environment says whether the database of the slot
\* answers, success exactly when it does.
SetupOutcomes(pool, idx) ==
    IF <<pool, idx>> \in DOMAIN reachable THEN {reachable[<<pool, idx>>]} ELSE BOOLEAN

\* Mutant of setDB: the wrapper is appended to the pool.
setDBAppend(slots, idx, handle) == Append(slots, newSqlxDBWrapper(handle))

\* Mutant of setDB: the wrapper in the slot is marked online in place and
\* its connection is left as it was.
setDBInPlace(slots, idx, handle) ==
    [slots EXCEPT ![idx + 1] = [DB |-> slots[idx + 1].DB, isOnline |-> TRUE]]

\* setDB: replica.Store(newSqlxDBWrapper(...handle...))
setDB(slots, idx, handle) == [slots EXCEPT ![idx + 1] = newSqlxDBWrapper(handle)]

\* select, case <-t.C: a tick begins.
MonitorTick ==
    /\ mon.pc = "select"
    /\ mon' = MonitorFirst
    /\ tick' = TickBegin
    /\ UNCHANGED <<bootLagFrame, accesses, reachable, returned, sleepTime, settings, rrCounter, srCounter, masterX, ReplicaXs,
                   searchReplicaXs, replicaLagHandles, lockedToMaster, license,
                   quitMonitor, wgMonitor, closedConns, shortLived, collectors,
                   call, closer, recycler>>

\* Mutant of MonitorQuit: the select never takes the quit case.
MonitorQuitNever == FALSE /\ UNCHANGED vars

\* select, case <-ss.quitMonitor: return; the deferred wgMonitor.Done().
MonitorQuit ==
    /\ mon.pc = "select"
    /\ quitMonitor = "closed"
    /\ mon' = [mon EXCEPT !.pc = "exited"]
    /\ wgMonitor' = wgMonitor - 1
    /\ UNCHANGED <<bootLagFrame, accesses, tick, reachable, returned, sleepTime, settings, rrCounter, srCounter, masterX, ReplicaXs,
                   searchReplicaXs, replicaLagHandles, lockedToMaster, license,
                   quitMonitor, closedConns, shortLived, collectors,
                   call, closer, recycler>>

\* Mutant of MonitorSkips: no slot is skipped.
MonitorSkipsNever(w) == FALSE

\* Mutant of MonitorSkips: every slot is skipped.
MonitorSkipsAlways(w) == TRUE

\* setupReplica: the test r.Load().Online()
MonitorSkips(w) == Online(w)

\* setupReplica up to the call of setDB: an online slot is skipped; for an
\* offline one SetupConnection is tried once and succeeds (ok) or fails.
MonitorSetup ==
    /\ mon.pc = "setup"
    /\ \E ok \in SetupOutcomes(mon.pool, mon.idx) :
         mon' = IF MonitorSkips(At(Slots(mon.pool), mon.idx)) \/ ~ok
                THEN MonitorAdvance
                ELSE [mon EXCEPT !.pc = "setDB",
                                 !.handle = Conn(mon.pool, mon.idx, "monitor")]
    /\ tick' = IF MonitorSkips(At(Slots(mon.pool), mon.idx)) THEN tick
               ELSE TickAttempt(mon.pool, mon.idx)
    /\ UNCHANGED <<bootLagFrame, accesses, reachable, returned, sleepTime, settings, rrCounter, srCounter, masterX, ReplicaXs,
                   searchReplicaXs, replicaLagHandles, lockedToMaster, license,
                   quitMonitor, wgMonitor, closedConns, shortLived, collectors,
                   call, closer, recycler>>

\* setupReplica after a successful SetupConnection: the collector of the
\* old wrapper is unregistered when it has a DB, setDB publishes the new
\* wrapper and registers its collector.  mon.late records that a wrapper
\* was published after a call of Close had begun.
MonitorSetDB ==
    /\ mon.pc = "setDB"
    /\ LET old == At(Slots(mon.pool), mon.idx)
           label == MonitorLabel(mon.pool, mon.idx)
       IN  /\ collectors' =
                (IF old.DB # NoDB THEN collectors \ {<<old.DB, label>>} ELSE collectors)
                   \cup {<<mon.handle, label>>}
           /\ IF mon.pool = "replica"
              THEN /\ ReplicaXs' = setDB(ReplicaXs, mon.idx, mon.handle)
                   /\ UNCHANGED searchReplicaXs
              ELSE /\ searchReplicaXs' = setDB(searchReplicaXs, mon.idx, mon.handle)
                   /\ UNCHANGED ReplicaXs
    /\ mon' = [MonitorAdvance EXCEPT
                 !.late = @ \/ \E c \in Closers : closer[c] # "idle"]
    /\ UNCHANGED <<bootLagFrame, accesses, tick, reachable, returned, sleepTime, settings, rrCounter, srCounter, masterX,
                   replicaLagHandles, lockedToMaster, license,
                   quitMonitor, wgMonitor, closedConns, shortLived,
                   call, closer, recycler>>

\* The database of a slot stops or starts answering.
DatabaseChanges(s) ==
    /\ s \in DOMAIN reachable
    /\ reachable' = [reachable EXCEPT ![s] = ~reachable[s]]
    /\ UNCHANGED <<bootLagFrame, accesses, tick, returned, sleepTime, settings,
                   rrCounter, srCounter, masterX, ReplicaXs, searchReplicaXs,
                   replicaLagHandles, lockedToMaster, license, quitMonitor,
                   wgMonitor, closedConns, shortLived, collectors, mon, call,
                   closer, recycler>>

(* ----------------------- RecycleDBConnections ------------------------- *)
\* GetAllConns: the online read replicas and the master.
GetAllConns ==
    {ReplicaXs[k] : k \in {j \in 1..Len(ReplicaXs) : Online(ReplicaXs[j])}}
        \cup {masterX}

\* Mutant of SleepFor: the sleep is shorter than the recycle duration.
SleepTooShort(d) == d - 1

\* time.Sleep(d + 2*time.Second) blocks for at least its argument; the
\* model takes the shortest sleep.
SleepFor(d) == d + SchedulingDelay

\* RecycleDBConnections, first loop: conn.SetConnMaxLifetime(d); then it
\* sleeps: time.Sleep(d + 2*time.Second).
RecycleShorten ==
    /\ recycler = "idle"
    /\ recycler' = "sleep"
    /\ sleepTime' = SleepFor(RecycleDuration)
    /\ shortLived' = shortLived \cup {w.DB : w \in GetAllConns}
    /\ UNCHANGED <<bootLagFrame, accesses, tick, reachable, returned, settings, rrCounter, srCounter, masterX, ReplicaXs,
                   searchReplicaXs, replicaLagHandles, lockedToMaster, license,
                   quitMonitor, wgMonitor, closedConns, collectors,
                   mon, call, closer>>

\* RecycleDBConnections, when the sleep is over: the second loop,
\* conn.SetConnMaxLifetime(originalDuration)
RecycleRestore ==
    /\ recycler = "sleep"
    /\ recycler' = "idle"
    /\ sleepTime' = 0
    /\ shortLived' = shortLived \ {w.DB : w \in GetAllConns}
    /\ UNCHANGED <<bootLagFrame, accesses, tick, reachable, returned, settings, rrCounter, srCounter, masterX, ReplicaXs,
                   searchReplicaXs, replicaLagHandles, lockedToMaster, license,
                   quitMonitor, wgMonitor, closedConns, collectors,
                   mon, call, closer>>

(* ------------------------------- Close -------------------------------- *)
\* Mutant of CloseAfter: the replica handles are closed right after the
\* stop is signalled, without waiting for the monitor.
CloseAfterNoWait(pc) ==
    CASE pc = "idle" -> "quit"
      [] pc = "quit" -> "replicas"
      [] pc = "wait" -> "replicas"
      [] pc = "replicas" -> "search"
      [] pc = "search" -> "lag"
      [] pc = "lag" -> "returned"

\* The statements of Close, in program order: ss.masterX.Close();
\* close(ss.quitMonitor); ss.wgMonitor.Wait(); the loops over ss.ReplicaXs,
\* ss.searchReplicaXs and ss.replicaLagHandles.
CloseAfter(pc) ==
    CASE pc = "idle" -> "quit"
      [] pc = "quit" -> "wait"
      [] pc = "wait" -> "replicas"
      [] pc = "replicas" -> "search"
      [] pc = "search" -> "lag"
      [] pc = "lag" -> "returned"

\* Mutant of WaitReturns: Wait does not block.
WaitReturnsAtOnce == TRUE

\* ss.wgMonitor.Wait() returns when the counter of the WaitGroup is zero.
WaitReturns == wgMonitor = 0

\* Mutant of OnlineDBs: only the wrappers initConnection stored.
OnlineDBsOfInit(slots) ==
    {slots[k].DB : k \in {j \in 1..Len(slots) :
                             Online(slots[j]) /\ slots[j].DB.by = "init"}}

\* The connections a loop of Close closes: those of the online wrappers.
OnlineDBs(slots) == {slots[k].DB : k \in {j \in 1..Len(slots) : Online(slots[j])}}

\* Close: ss.masterX.Close()
CloseMaster(c) ==
    /\ closer[c] = "idle"
    /\ closer' = [closer EXCEPT ![c] = CloseAfter("idle")]
    /\ closedConns' = closedConns \cup {masterX.DB}
    /\ UNCHANGED <<bootLagFrame, accesses, tick, reachable, returned, sleepTime, settings, rrCounter, srCounter, masterX, ReplicaXs,
                   searchReplicaXs, replicaLagHandles, lockedToMaster, license,
                   quitMonitor, wgMonitor, shortLived, collectors,
                   mon, call, recycler>>

\* Close: close(ss.quitMonitor); closing a closed channel panics.
CloseQuit(c) ==
    /\ closer[c] = "quit"
    /\ IF quitMonitor = "closed"
       THEN /\ closer' = [closer EXCEPT ![c] = "panic"]
            /\ UNCHANGED quitMonitor
       ELSE /\ closer' = [closer EXCEPT ![c] = CloseAfter("quit")]
            /\ quitMonitor' = "closed"
    /\ UNCHANGED <<bootLagFrame, accesses, tick, reachable, returned, sleepTime, settings, rrCounter, srCounter, masterX, ReplicaXs,
                   searchReplicaXs, replicaLagHandles, lockedToMaster, license,
                   wgMonitor, closedConns, shortLived, collectors,
                   mon, call, recycler>>

\* Close: ss.wgMonitor.Wait()
CloseWait(c) ==
    /\ closer[c] = "wait"
    /\ WaitReturns
    /\ closer' = [closer EXCEPT ![c] = CloseAfter("wait")]
    /\ UNCHANGED <<bootLagFrame, accesses, tick, reachable, returned, sleepTime, settings, rrCounter, srCounter, masterX, ReplicaXs,
                   searchReplicaXs, replicaLagHandles, lockedToMaster, license,
                   quitMonitor, wgMonitor, closedConns, shortLived, collectors,
                   mon, call, recycler>>

\* Close: the loop over ss.ReplicaXs
CloseReplicas(c) ==
    /\ closer[c] = "replicas"
    /\ closer' = [closer EXCEPT ![c] = CloseAfter("replicas")]
    /\ closedConns' = closedConns \cup OnlineDBs(ReplicaXs)
    /\ UNCHANGED <<bootLagFrame, accesses, tick, reachable, returned, sleepTime, settings, rrCounter, srCounter, masterX, ReplicaXs,
                   searchReplicaXs, replicaLagHandles, lockedToMaster, license,
                   quitMonitor, wgMonitor, shortLived, collectors,
                   mon, call, recycler>>

\* Close: the loop over ss.searchReplicaXs
CloseSearchReplicas(c) ==
    /\ closer[c] = "search"
    /\ closer' = [closer EXCEPT ![c] = CloseAfter("search")]
    /\ closedConns' = closedConns \cup OnlineDBs(searchReplicaXs)
    /\ UNCHANGED <<bootLagFrame, accesses, tick, reachable, returned, sleepTime, settings, rrCounter, srCounter, masterX, ReplicaXs,
                   searchReplicaXs, replicaLagHandles, lockedToMaster, license,
                   quitMonitor, wgMonitor, shortLived, collectors,
                   mon, call, recycler>>

\* Close: the loop over ss.replicaLagHandles
CloseLagHandles(c) ==
    /\ closer[c] = "lag"
    /\ closer' = [closer EXCEPT ![c] = CloseAfter("lag")]
    /\ closedConns' = closedConns
                        \cup {replicaLagHandles[k] : k \in 1..Len(replicaLagHandles)}
    /\ UNCHANGED <<bootLagFrame, accesses, tick, reachable, returned, sleepTime, settings, rrCounter, srCounter, masterX, ReplicaXs,
                   searchReplicaXs, replicaLagHandles, lockedToMaster, license,
                   quitMonitor, wgMonitor, shortLived, collectors,
                   mon, call, recycler>>

Close(c) ==
    \/ CloseMaster(c)
    \/ CloseQuit(c)
    \/ CloseWait(c)
    \/ CloseReplicas(c)
    \/ CloseSearchReplicas(c)
    \/ CloseLagHandles(c)

(* ----------------------------- SetMasterX ----------------------------- *)
\* SetMasterX: ss.masterX = newSqlxDBWrapper(...db...); the wrapper that
\* was held is dropped as it is.
SetMasterX(db) ==
    /\ masterX' = newSqlxDBWrapper(db)
    /\ UNCHANGED <<bootLagFrame, accesses, tick, reachable, returned, sleepTime, settings, rrCounter, srCounter,
                   ReplicaXs, searchReplicaXs, replicaLagHandles, lockedToMaster,
                   license, quitMonitor, wgMonitor, closedConns, shortLived,
                   collectors, mon, call, closer, recycler>>

(* ------------------------ strings and versions ------------------------ *)
\* A Go string is the sequence of its characters.
DigitChars == <<"0", "1", "2", "3", "4", "5", "6", "7", "8", "9">>
IsDigit(ch) == \E k \in 1..Len(DigitChars) : DigitChars[k] = ch
DigitValue(ch) == (CHOOSE k \in 1..Len(DigitChars) : DigitChars[k] = ch) - 1

RECURSIVE ParseDigits(_, _)
ParseDigits(s, acc) ==
    IF s = << >> THEN acc
    ELSE ParseDigits(Tail(s), acc * 10 + DigitValue(Head(s)))

\* strconv.Atoi: an optional sign and at least one decimal digit, nothing
\* else.
Atoi(s) ==
    LET signed == s # << >> /\ Head(s) \in {"+", "-"}
        body == IF signed THEN Tail(s) ELSE s
    IN  IF body = << >> \/ \E k \in 1..Len(body) : ~IsDigit(body[k])
        THEN [ok |-> FALSE, val |-> 0]
        ELSE [ok |-> TRUE,
              val |-> IF signed /\ Head(s) = "-"
                      THEN 0 - ParseDigits(body, 0) ELSE ParseDigits(body, 0)]

\* strconv.Itoa
RECURSIVE Itoa(_)
Itoa(n) ==
    IF n < 0 THEN <<"-">> \o Itoa(0 - n)
    ELSE IF n < 10 THEN <<DigitChars[n + 1]>>
    ELSE Itoa(n \div 10) \o <<DigitChars[(n % 10) + 1]>>

\* Go's integer division and remainder: the quotient is truncated toward
\* zero and the remainder has the sign of the dividend.
GoDiv(a, b) == IF a >= 0 THEN a \div b ELSE 0 - ((0 - a) \div b)
GoMod(a, b) == a - b * GoDiv(a, b)

\* versionString: minor := v % 10000; major := v / 10000;
\* strconv.Itoa(major) + "." + strconv.Itoa(minor)
versionString(v) ==
    Itoa(GoDiv(v, 10000)) \o <<".">> \o Itoa(GoMod(v, 10000))

\* An error: the format of its message and the arguments of the format,
\* and the message it was wrapped with by New.
NoError == [wrap |-> "", text |-> "", args |-> << >>]
Errorf(text, args) == [wrap |-> "", text |-> text, args |-> args]
Wrap(err, wrap) == [err EXCEPT !.wrap = wrap]

\* Mutant of BelowMinimum: the minimum itself is rejected.
BelowOrAtMinimum(intVer) == intVer <= minimumRequiredPostgresVersion

\* ensureMinimumDBVersion: intVer < minimumRequiredPostgresVersion
BelowMinimum(intVer) == intVer < minimumRequiredPostgresVersion

\* ensureMinimumDBVersion, for the Postgres driver (the only driver for
\* which GetDbVersion returns a version).
ensureMinimumDBVersion(ver) ==
    LET parsed == Atoi(ver)
    IN  IF ~parsed.ok
        THEN [ok |-> FALSE, err |-> Errorf("cannot parse DB version: %v", <<ver>>)]
        ELSE IF BelowMinimum(parsed.val)
        THEN [ok |-> FALSE,
              err |-> Errorf("minimum Postgres version requirements not met. Found: %s, Wanted: %s",
                             <<versionString(parsed.val),
                               versionString(minimumRequiredPostgresVersion)>>)]
        ELSE [ok |-> TRUE, err |-> NoError]

\* The answers of the database to SHOW server_version_num that New is run
\* with: "120000", "129999", "130000", "130001", "90603", and two answers
\* that are not integers, "13.4" and "".
VersionStrings ==
    { <<"1", "2", "0", "0", "0", "0">>,
      <<"1", "2", "9", "9", "9", "9">>,
      <<"1", "3", "0", "0", "0", "0">>,
      <<"1", "3", "0", "0", "0", "1">>,
      <<"9", "0", "6", "0", "3">>,
      <<"1", "3", ".", "4">>,
      << >> }

(* -------------------------------- New --------------------------------- *)
\* The variables no step of New changes.
bootFrame == <<settings, rrCounter, srCounter, lockedToMaster, license,
               quitMonitor, closedConns, shortLived, call, closer, recycler,
               sleepTime, returned, accesses, tick, reachable, origin, skipMigrations,
               lag, migration, classified>>

\* New has failed: it returns nil and the wrapped error.
Failed(err, wrap) == [boot EXCEPT !.pc = "failed", !.err = Wrap(err, wrap)]

\* A slice made with length n (make([]..., n)) in which slot i is stored.
StoreSlot(slots, n, i, w) ==
    [k \in 1..n |-> IF k = i + 1 THEN w
                    ELSE IF k <= Len(slots) THEN slots[k] ELSE NoWrapper]

\* Mutant of AfterMaster: the error of the master connection is ignored.
AfterMasterIgnoresError(ok) == "replicas"

\* initConnection after SetupConnection for the master: if err != nil
\* { return err }, and New returns the error.
AfterMaster(ok) == IF ok THEN "replicas" ELSE "failed"

\* initConnection: sqlUtils.SetupConnection(..., "master", ...,
\* DBPingAttempts).  One ping per step; the connection is given up after
\* DBPingAttempts failed pings.  boot.attempts counts the failed pings of
\* the call in progress and, after a failure, of the call that failed.
InitConnectionMaster ==
    /\ boot.pc = "master"
    /\ \E ok \in BOOLEAN :
         IF ok
         THEN /\ masterX' = newSqlxDBWrapper(Conn("master", 0, "init"))
              /\ collectors' = collectors \cup {<<Conn("master", 0, "init"), <<"master", 0>>>>}
              /\ boot' = [boot EXCEPT !.pc = AfterMaster(TRUE), !.attempts = 0]
         ELSE /\ UNCHANGED <<masterX, collectors>>
              /\ boot' = IF boot.attempts + 1 < DBPingAttempts
                         THEN [boot EXCEPT !.attempts = @ + 1]
                         ELSE [Failed(Errorf("ping failed", << >>),
                                      "error setting up connections")
                                 EXCEPT !.attempts = boot.attempts + 1,
                                        !.pc = AfterMaster(FALSE)]
    /\ UNCHANGED <<ReplicaXs, searchReplicaXs, replicaLagHandles, wgMonitor, mon,
                   bootFrame>>

\* initConnection, the loop over settings.DataSourceReplicas: one
\* SetupConnection per replica; on failure the offline placeholder is
\* stored, otherwise setDB stores the wrapper and registers its collector.
InitConnectionReplica ==
    /\ boot.pc = "replicas"
    /\ IF boot.i < settings.DataSourceReplicas
       THEN \E ok \in BOOLEAN :
              /\ ReplicaXs' = StoreSlot(ReplicaXs, settings.DataSourceReplicas, boot.i,
                                        InitWrapper("replica", boot.i, ok))
              /\ collectors' = IF ok
                               THEN collectors \cup {<<Conn("replica", boot.i, "init"),
                                                       InitLabel("replica", boot.i)>>}
                               ELSE collectors
              /\ boot' = [boot EXCEPT !.i = @ + 1,
                                      !.up = IF ok THEN @ \cup {<<"replica", boot.i>>} ELSE @]
       ELSE /\ boot' = [boot EXCEPT !.pc = "search", !.i = 0]
            /\ UNCHANGED <<ReplicaXs, collectors>>
    /\ UNCHANGED <<masterX, searchReplicaXs, replicaLagHandles, wgMonitor, mon,
                   bootFrame>>

\* initConnection, the loop over settings.DataSourceSearchReplicas.
InitConnectionSearch ==
    /\ boot.pc = "search"
    /\ IF boot.i < settings.DataSourceSearchReplicas
       THEN \E ok \in BOOLEAN :
              /\ searchReplicaXs' = StoreSlot(searchReplicaXs,
                                              settings.DataSourceSearchReplicas, boot.i,
                                              InitWrapper("search", boot.i, ok))
              /\ collectors' = IF ok
                               THEN collectors \cup {<<Conn("search", boot.i, "init"),
                                                       InitLabel("search", boot.i)>>}
                               ELSE collectors
              /\ boot' = [boot EXCEPT !.i = @ + 1,
                                      !.up = IF ok THEN @ \cup {<<"search", boot.i>>} ELSE @]
       ELSE /\ boot' = [boot EXCEPT !.pc = "lag", !.i = 0]
            /\ UNCHANGED <<searchReplicaXs, collectors>>
    /\ UNCHANGED <<masterX, ReplicaXs, replicaLagHandles, wgMonitor, mon, bootFrame>>

\* initConnection, the loop over settings.ReplicaLagSettings: a target
\* without DataSource is skipped; a failed connection is skipped; a
\* connection is appended.  After the loop initConnection returns nil.
InitConnectionLag ==
    /\ boot.pc = "lag"
    /\ IF boot.i < Len(settings.ReplicaLagSettings)
       THEN \E ok \in BOOLEAN :
              LET connects == At(settings.ReplicaLagSettings, boot.i).DataSource /\ ok
              IN  /\ replicaLagHandles' =
                        IF connects
                        THEN Append(replicaLagHandles, Conn("lag", boot.i, "init"))
                        ELSE replicaLagHandles
                  /\ boot' = [boot EXCEPT !.i = @ + 1,
                                          !.up = IF connects THEN @ \cup {<<"lag", boot.i>>}
                                                 ELSE @]
       ELSE /\ boot' = [boot EXCEPT !.pc = "monitor", !.i = 0]
            /\ UNCHANGED replicaLagHandles
    /\ UNCHANGED <<masterX, ReplicaXs, searchReplicaXs, collectors, wgMonitor, mon,
                   bootFrame>>

\* New: store.wgMonitor.Add(1); go store.monitorReplicas()
NewStartMonitor ==
    /\ boot.pc = "monitor"
    /\ wgMonitor' = wgMonitor + 1
    /\ mon' = [mon EXCEPT !.pc = "select"]
    /\ boot' = [boot EXCEPT !.pc = "version"]
    /\ UNCHANGED <<masterX, ReplicaXs, searchReplicaXs, replicaLagHandles, collectors,
                   bootFrame>>

\* GetReplica as the goroutine of New runs it, from iteration i of its
\* loop with the rotation counter at counter: the wrapper it returns and
\* the counter it leaves.
RECURSIVE GetReplicaLoop(_, _)
GetReplicaLoop(counter, i) ==
    IF i >= Len(ReplicaXs) THEN [w |-> GetMaster, counter |-> counter]
    ELSE IF ProbeOnline(ReplicaXs, RoundRobin(counter, Len(ReplicaXs)))
         THEN [w |-> At(ReplicaXs, RoundRobin(counter, Len(ReplicaXs))),
               counter |-> counter + 1]
         ELSE GetReplicaLoop(counter + 1, i + 1)

\* ss.GetReplica() in GetDbVersion: the guard, then the loop.
GetDbVersionReplica ==
    IF GetReplicaLocked \/ ~hasLicense
    THEN [w |-> GetMaster, counter |-> rrCounter]
    ELSE GetReplicaLoop(rrCounter, 0)

\* New: ver, err := store.GetDbVersion(true), which runs the query on
\* ss.GetReplica(); the query fails or the database answers with a version
\* string.  boot.from is the wrapper the query was run on.
NewGetDbVersion ==
    /\ boot.pc = "version"
    /\ rrCounter' = GetDbVersionReplica.counter
    /\ \/ boot' = [Failed(Errorf("query failed", << >>), "error while getting DB version")
                     EXCEPT !.from = GetDbVersionReplica.w]
       \/ \E ver \in VersionStrings :
             boot' = [boot EXCEPT !.pc = "gate", !.ver = ver,
                                  !.from = GetDbVersionReplica.w]
    /\ UNCHANGED <<masterX, ReplicaXs, searchReplicaXs, replicaLagHandles, collectors,
                   wgMonitor, mon, settings, srCounter, lockedToMaster, license,
                   quitMonitor, closedConns, shortLived, call, closer, recycler,
                   sleepTime, returned, accesses, tick, reachable, origin, skipMigrations,
                   lag, migration, classified>>

\* Mutant of AfterGate: with SkipMigrations the result of the gate is not
\* looked at.
AfterGateSkipped(ok) ==
    IF skipMigrations THEN "params" ELSE IF ~ok THEN "failed" ELSE "migrate"

\* New after ensureMinimumDBVersion: if !ok { return nil, ... };
\* if !store.skipMigrations { store.migrate(...) }
AfterGate(ok) ==
    IF ~ok THEN "failed" ELSE IF ~skipMigrations THEN "migrate" ELSE "params"

\* New: ok, err := store.ensureMinimumDBVersion(ver)
NewEnsureMinimumDBVersion ==
    /\ boot.pc = "gate"
    /\ LET g == ensureMinimumDBVersion(boot.ver)
       IN  boot' = [boot EXCEPT !.pc = AfterGate(g.ok),
                                !.gate = IF g.ok THEN "ok" ELSE "failed",
                                !.err = IF g.ok THEN NoError
                                        ELSE Wrap(g.err, "error while checking DB version")]
    /\ UNCHANGED <<masterX, ReplicaXs, searchReplicaXs, replicaLagHandles, collectors,
                   wgMonitor, mon, bootFrame>>

\* New: err = store.migrate(migrationsDirectionUp, ...); the migration run
\* completes or fails.
NewMigrate ==
    /\ boot.pc = "migrate"
    /\ \/ boot' = [boot EXCEPT !.pc = "params", !.migrated = "ok"]
       \/ boot' = [Failed(Errorf("migration failed", << >>),
                          "failed to apply database migrations")
                     EXCEPT !.migrated = "failed"]
    /\ UNCHANGED <<masterX, ReplicaXs, searchReplicaXs, replicaLagHandles, collectors,
                   wgMonitor, mon, bootFrame>>

\* New: computeBinaryParam and computeDefaultTextSearchConfig; either may
\* fail.
NewComputeParams ==
    /\ boot.pc = "params"
    /\ \/ boot' = [boot EXCEPT !.pc = "stores"]
       \/ boot' = Failed(Errorf("query failed", << >>), "failed to compute binary param")
       \/ boot' = Failed(Errorf("query failed", << >>),
                         "failed to compute default text search config")
    /\ UNCHANGED <<masterX, ReplicaXs, searchReplicaXs, replicaLagHandles, collectors,
                   wgMonitor, mon, bootFrame>>

\* New: the entity stores are constructed (store.stores.team = ... and the
\* rest) and New returns the store.
NewStores ==
    /\ boot.pc = "stores"
    /\ boot' = [boot EXCEPT !.pc = "returned", !.stores = TRUE]
    /\ UNCHANGED <<masterX, ReplicaXs, searchReplicaXs, replicaLagHandles, collectors,
                   wgMonitor, mon, bootFrame>>

(* ----------------------------- lag probes ----------------------------- *)
\* The goroutine calling ReplicaLagAbs or ReplicaLagTime: i is the index of
\* the loop, err whether the call returned an error, attempted the targets
\* whose query was run, forwarded the values passed to the metrics sink
\* (target and the connection the value was read from).
IdleLag == [pc |-> "idle", op |-> "none", i |-> 0, err |-> FALSE,
            attempted |-> {}, forwarded |-> {}]

\* The variables the lag probes leave alone.
lagFrame == <<settings, rrCounter, srCounter, masterX, ReplicaXs, searchReplicaXs,
              replicaLagHandles, lockedToMaster, license, quitMonitor, wgMonitor,
              closedConns, shortLived, collectors, mon, call, closer, recycler,
              sleepTime, returned, accesses, tick, reachable, origin, skipMigrations,
              boot, migration, classified>>

\* item.QueryAbsoluteLag / item.QueryTimeLag is set and not "".
HasQuery(op, item) ==
    IF op = "ReplicaLagAbs" THEN item.QueryAbsoluteLag ELSE item.QueryTimeLag

\* ReplicaLagAbs or ReplicaLagTime is called.
ReplicaLagCall(op) ==
    /\ lag.pc \in {"idle", "returned"}
    /\ lag' = [IdleLag EXCEPT !.pc = "loop", !.op = op]
    /\ UNCHANGED lagFrame

\* One iteration of for i, item := range ss.settings.ReplicaLagSettings: a
\* target without query is skipped; ss.replicaLagHandles[i] panics when i
\* is out of range; when the query fails the call returns the error;
\* otherwise the value is passed to the metrics sink.  After the last
\* target the call returns nil.
ReplicaLagLoop ==
    /\ lag.pc = "loop"
    /\ IF lag.i >= Len(settings.ReplicaLagSettings)
       THEN lag' = [lag EXCEPT !.pc = "returned"]
       ELSE IF ~HasQuery(lag.op, At(settings.ReplicaLagSettings, lag.i))
       THEN lag' = [lag EXCEPT !.i = @ + 1]
       ELSE IF lag.i >= Len(replicaLagHandles)
       THEN lag' = [lag EXCEPT !.pc = "panic"]
       ELSE \E ok \in BOOLEAN :
              lag' = IF ok
                     THEN [lag EXCEPT !.i = @ + 1,
                                      !.attempted = @ \cup {lag.i},
                                      !.forwarded = @ \cup
                                          {[target |-> lag.i,
                                            handle |-> At(replicaLagHandles, lag.i)]}]
                     ELSE [lag EXCEPT !.pc = "returned", !.err = TRUE,
                                      !.attempted = @ \cup {lag.i}]
    /\ UNCHANGED lagFrame

(* ---------------------------- IsDuplicate ----------------------------- *)
PGDupTableErrorCode == "42P07"
PGForeignKeyViolationErrorCode == "23503"
PGDuplicateObjectErrorCode == "42710"

\* A Go error value: its dynamic type once the errors.Wrap layers are
\* removed ("nil", "*pq.Error" or "error" for any other type), the Code of
\* a *pq.Error, and the number of errors.Wrap layers around it.
GoError(type, code, wraps) == [type |-> type, Code |-> code, wraps |-> wraps]
NilError == GoError("nil", "", 0)
PqError(code) == GoError("*pq.Error", code, 0)

\* errors.Cause: the error under the errors.Wrap layers.
Cause(err) == [err EXCEPT !.wraps = 0]

\* Mutant of IsDuplicate: every database error is a duplicate.
IsDuplicateAnyPqError(err) == Cause(err).type = "*pq.Error"

\* IsDuplicate: errors.As(errors.Cause(err), &pqErr) and
\* pqErr.Code == PGDupTableErrorCode
IsDuplicate(err) ==
    /\ Cause(err).type = "*pq.Error"
    /\ Cause(err).Code = PGDupTableErrorCode

\* The variables a call of IsDuplicate leaves alone.
classifyFrame == <<settings, rrCounter, srCounter, masterX, ReplicaXs, searchReplicaXs,
                   replicaLagHandles, lockedToMaster, license, quitMonitor, wgMonitor,
                   closedConns, shortLived, collectors, mon, call, closer, recycler,
                   sleepTime, returned, accesses, tick, reachable, origin, skipMigrations,
                   boot, lag, migration>>

\* IsDuplicate is called with the next error.
IsDuplicateCall ==
    /\ Len(classified.results) < Len(classified.errs)
    /\ classified' =
          [classified EXCEPT
             !.results = Append(@, IsDuplicate(classified.errs[Len(classified.results) + 1]))]
    /\ UNCHANGED classifyFrame

(* ----------------------------- migrate -------------------------------- *)
\* SqlStore.migrate applies the migration definitions, versions
\* 1..Len(migration.kinds), to the database: migration v creates a table
\* or another schema object, and a run that has applied it appends a
\* MigrationRecord to the ledger.  The processes running New against the
\* same database:
Runs == {"run1", "run2"}

\* A run: its position, the version it is at and the last error it met.
IdleRun == [pc |-> "start", v |-> 0, err |-> NilError]

\* The error the database answers with when the table or object a
\* migration creates exists already.
DuplicateError(kind) ==
    PqError(IF kind = "table" THEN PGDupTableErrorCode ELSE PGDuplicateObjectErrorCode)

\* The errors a migration can fail with when nothing exists already.
OtherErrors == {PqError(PGForeignKeyViolationErrorCode), GoError("error", "", 0)}

\* Mutant of MigrateBenign: only the duplicate-table class is benign.
MigrateBenignTablesOnly(err) ==
    err.type = "*pq.Error" /\ err.Code = PGDupTableErrorCode

\* The "already exists" classes of error, which do not abort a run.
MigrateBenign(err) ==
    /\ err.type = "*pq.Error"
    /\ err.Code \in {PGDupTableErrorCode, PGDuplicateObjectErrorCode}

\* The last applied version: the largest version in the ledger.
LastApplied(records) ==
    IF records = << >> THEN 0
    ELSE CHOOSE v \in {records[k] : k \in 1..Len(records)} :
            \A k \in 1..Len(records) : records[k] <= v

\* The run goes on with the version after v, or is done.
RunAt(r, v, err) ==
    [migration.run[r] EXCEPT !.pc = IF v > Len(migration.kinds) THEN "done" ELSE "create",
                             !.v = v, !.err = err]

\* The variables a migration run leaves alone.
migrateFrame == <<settings, rrCounter, srCounter, masterX, ReplicaXs, searchReplicaXs,
                  replicaLagHandles, lockedToMaster, license, quitMonitor, wgMonitor,
                  closedConns, shortLived, collectors, mon, call, closer, recycler,
                  sleepTime, returned, accesses, tick, reachable, origin, skipMigrations,
                  boot, lag, classified>>

\* The run reads the last applied version and starts with the next one.
MigrateStart(r) ==
    /\ migration.run[r].pc = "start"
    /\ migration' = [migration EXCEPT
                       !.run[r] = RunAt(r, LastApplied(migration.records) + 1, NilError)]
    /\ UNCHANGED migrateFrame

\* The run applies migration v.  When what it creates exists, the database
\* answers with a duplicate error: a benign error is passed over and the
\* run goes on with the next version, any other error is fatal.  When it
\* does not exist, the migration creates it or fails with another error.
MigrateCreate(r) ==
    /\ migration.run[r].pc = "create"
    /\ LET v == migration.run[r].v
           Fails(err) ==
               migration' = [migration EXCEPT
                               !.run[r] = IF MigrateBenign(err)
                                          THEN RunAt(r, v + 1, err)
                                          ELSE [@ EXCEPT !.pc = "fatal", !.err = err]]
       IN  IF v \in migration.objects
           THEN Fails(DuplicateError(migration.kinds[v]))
           ELSE \/ migration' = [migration EXCEPT !.objects = @ \cup {v},
                                                  !.run[r].pc = "record"]
                \/ \E err \in OtherErrors : Fails(err)
    /\ UNCHANGED migrateFrame

\* The run records the migration it has applied.
MigrateRecord(r) ==
    /\ migration.run[r].pc = "record"
    /\ migration' = [migration EXCEPT
                       !.records = Append(@, migration.run[r].v),
                       !.run[r] = RunAt(r, migration.run[r].v + 1, migration.run[r].err)]
    /\ UNCHANGED migrateFrame

(* ------------------------- initial states ----------------------------- *)
\* One entry of settings.ReplicaLagSettings: whether DataSource is set and
\* whether QueryAbsoluteLag and QueryTimeLag are set and non-empty.
LagTarget(ds, abs, time) ==
    [DataSource |-> ds, QueryAbsoluteLag |-> abs, QueryTimeLag |-> time]

\* initConnection, the loop over ReplicaLagSettings, after its first n
\* iterations: a target without DataSource is skipped, a failed connection
\* (target not in up) is skipped, a connection is appended otherwise.
RECURSIVE LagHandles(_, _, _)
LagHandles(targets, up, n) ==
    IF n = 0 THEN << >>
    ELSE LET h == LagHandles(targets, up, n - 1)
         IN  IF targets[n].DataSource /\ (n - 1) \in up
             THEN Append(h, Conn("lag", n - 1, "init"))
             ELSE h

\* n lag targets, all with a data source and both queries, all connected.
FullLag(n) ==
    [targets |-> [k \in 1..n |-> LagTarget(TRUE, TRUE, TRUE)],
     handles |-> [k \in 1..n |-> Conn("lag", k - 1, "init")]]

\* New has returned the store.
Booted ==
    [pc |-> "returned", i |-> 0, attempts |-> 0, ver |-> << >>, gate |-> "ok",
     migrated |-> "ok", err |-> NoError, up |-> {}, stores |-> TRUE,
     from |-> newSqlxDBWrapper(Conn("master", 0, "init"))]

\* Nothing is logged, and the outcome of a connection attempt is free.
NoLogs ==
    /\ accesses = << >>
    /\ tick = << >>
    /\ reachable = << >>

\* No migration is in progress and no error is being classified.
NoMigration ==
    /\ migration = [kinds |-> << >>, objects |-> {}, records |-> << >>, run |-> << >>]
    /\ classified = [errs |-> << >>, results |-> << >>]

\* The store New returns, without the reader goroutines: initConnection
\* has connected the master, has stored in every configured slot an online
\* wrapper or an offline placeholder, and has opened the lag-probe
\* connections; the monitor has been started (wgMonitor.Add(1)).  Both
\* counters stand at an origin drawn from origins.
InitServingFrom(origins, replicaCounts, searchCounts, lags, licenses, locks) ==
    /\ origin \in origins
    /\ \E nr \in replicaCounts, ns \in searchCounts, l \in lags :
         /\ settings = [DataSourceReplicas |-> nr, DataSourceSearchReplicas |-> ns,
                        ReplicaLagSettings |-> l.targets]
         /\ replicaLagHandles = l.handles
         /\ \E up \in SeqsOfLen(BOOLEAN, nr) :
              ReplicaXs = [k \in 1..nr |-> InitWrapper("replica", k - 1, up[k])]
         /\ \E up \in SeqsOfLen(BOOLEAN, ns) :
              searchReplicaXs = [k \in 1..ns |-> InitWrapper("search", k - 1, up[k])]
    /\ rrCounter = 0
    /\ srCounter = 0
    /\ masterX = newSqlxDBWrapper(Conn("master", 0, "init"))
    /\ lockedToMaster \in locks
    /\ license \in licenses
    /\ quitMonitor = "open"
    /\ wgMonitor = 1
    /\ closedConns = {}
    /\ shortLived = {}
    /\ collectors =
         {<<masterX.DB, <<"master", 0>>>>}
           \cup {<<ReplicaXs[k].DB, InitLabel("replica", k - 1)>> :
                   k \in {j \in 1..Len(ReplicaXs) : Online(ReplicaXs[j])}}
           \cup {<<searchReplicaXs[k].DB, InitLabel("search", k - 1)>> :
                   k \in {j \in 1..Len(searchReplicaXs) : Online(searchReplicaXs[j])}}
    /\ mon = [pc |-> "select", pool |-> "replica", idx |-> 0, handle |-> NoDB,
              late |-> FALSE]
    /\ closer = [c \in Closers |-> "idle"]
    /\ recycler = "idle"
    /\ sleepTime = 0
    /\ skipMigrations = FALSE
    /\ boot = Booted
    /\ lag = IdleLag

\* The store New returns: both counters are zero.
InitServing(replicaCounts, searchCounts, lags, licenses, locks) ==
    InitServingFrom({"zero"}, replicaCounts, searchCounts, lags, licenses, locks)

\* The store with the followed reader; no call is tallied.
InitStore(lagCounts, licenses, locks) ==
    /\ InitServing(0..MaxReplicas, 0..MaxSearchReplicas,
                   {FullLag(n) : n \in lagCounts}, licenses, locks)
    /\ call = [c \in Callers |-> IdleCall]
    /\ returned = << >>
    /\ NoLogs
    /\ NoMigration

\* Serving: the routing flags have been set by earlier calls of
\* UpdateLicense and LockToMaster and stay as they are.
Init == InitStore({0}, {"nil", "license"}, BOOLEAN)

Reader(c) ==
    \/ GetReplicaGuard(c)
    \/ GetReplicaLicense(c)
    \/ GetReplicaAdd(c)
    \/ GetReplicaOnline(c)
    \/ GetReplicaLoad(c)
    \/ GetSearchReplicaXGuard(c)
    \/ GetSearchReplicaXAdd(c)
    \/ GetSearchReplicaXOnline(c)
    \/ GetSearchReplicaXLoad(c)
    \/ GetInternalReplicaDBGuard(c)
    \/ GetInternalReplicaDBLicense(c)
    \/ GetInternalReplicaDBAdd(c)
    \/ GetInternalReplicaDBLoad(c)

Next ==
    \/ \E c \in Callers : Reader(c)
    \/ OtherGetReplicaAdd
    \/ OtherGetSearchReplicaXAdd
    \/ MonitorTick
    \/ MonitorSetup
    \/ MonitorSetDB

Spec == Init /\ [][Next]_vars

\* The routing flags are changed while a reader is in a call; the
\* connections are recycled.  The store is as New returns it: no license,
\* not locked.
InitFlags == InitStore({0}, {"nil"}, {FALSE})

NextFlags ==
    \/ \E c \in Callers : Reader(c)
    \/ MonitorTick
    \/ MonitorSetup
    \/ MonitorSetDB
    \/ LockToMaster
    \/ UnlockFromMaster
    \/ \E l \in {"nil", "license"} : UpdateLicense(l)
    \/ RecycleShorten
    \/ RecycleRestore

SpecFlags == InitFlags /\ [][NextFlags]_vars

\* Shutdown: Close is called, possibly twice, while the monitor runs.
InitShutdown == InitStore(0..MaxLagHandles, {"nil"}, {FALSE})

NextShutdown ==
    \/ MonitorTick
    \/ MonitorQuit
    \/ MonitorSetup
    \/ MonitorSetDB
    \/ \E c \in Closers : Close(c)

SpecShutdown == InitShutdown /\ [][NextShutdown]_vars

\* Fairness: several readers call GetReplica concurrently; a license is
\* set, the store is not locked and every read slot is online.  Every
\* returned slot is tallied.
FairCallers == {"reader", "reader2", "reader3"}

InitFair ==
    /\ InitServing(1..MaxReplicas, {0}, {FullLag(0)}, {"license"}, {FALSE})
    /\ \A k \in 1..Len(ReplicaXs) : Online(ReplicaXs[k])
    /\ call = [c \in FairCallers |-> IdleCall]
    /\ returned = [k \in 1..Len(ReplicaXs) |-> 0]
    /\ NoLogs
    /\ NoMigration

NextFair ==
    \E c \in FairCallers :
        \/ GetReplicaGuard(c)
        \/ GetReplicaLicense(c)
        \/ GetReplicaAdd(c)
        \/ GetReplicaOnline(c)
        \/ GetReplicaLoad(c)

SpecFair == InitFair /\ [][NextFair]_vars

\* Startup: New is called with the options applied (SkipMigrations or not)
\* on a zero SqlStore.  These are the steps of the goroutine calling New;
\* after the monitor is started New reads no slot (without a license
\* GetDbVersion goes to the master), so the steps of the monitor, which
\* write slots only, are left to the serving specifications.
InitNew ==
    /\ \E nr \in 0..MaxReplicas, ns \in 0..MaxSearchReplicas, nl \in 0..MaxLagHandles :
         \E ds \in SeqsOfLen(BOOLEAN, nl) :
            settings = [DataSourceReplicas |-> nr, DataSourceSearchReplicas |-> ns,
                        ReplicaLagSettings |->
                            [k \in 1..nl |-> LagTarget(ds[k], TRUE, TRUE)]]
    /\ skipMigrations \in BOOLEAN
    /\ origin = "zero"
    /\ rrCounter = 0
    /\ srCounter = 0
    /\ masterX = NoWrapper
    /\ ReplicaXs = << >>
    /\ searchReplicaXs = << >>
    /\ replicaLagHandles = << >>
    /\ lockedToMaster = FALSE
    /\ license = "nil"
    /\ quitMonitor = "open"
    /\ wgMonitor = 0
    /\ closedConns = {}
    /\ shortLived = {}
    /\ collectors = {}
    /\ mon = [pc |-> "unstarted", pool |-> "replica", idx |-> 0, handle |-> NoDB,
              late |-> FALSE]
    /\ call = [c \in Callers |-> IdleCall]
    /\ closer = [c \in Closers |-> "idle"]
    /\ recycler = "idle"
    /\ sleepTime = 0
    /\ returned = << >>
    /\ NoLogs
    /\ NoMigration
    /\ boot = [pc |-> "master", i |-> 0, attempts |-> 0, ver |-> << >>,
               gate |-> "none", migrated |-> "no", err |-> NoError, up |-> {},
               stores |-> FALSE, from |-> NoWrapper]
    /\ lag = IdleLag

NextNew ==
    \/ InitConnectionMaster
    \/ InitConnectionReplica
    \/ InitConnectionSearch
    \/ InitConnectionLag
    \/ NewStartMonitor
    \/ NewGetDbVersion
    \/ NewEnsureMinimumDBVersion
    \/ NewMigrate
    \/ NewComputeParams
    \/ NewStores

SpecNew == InitNew /\ [][NextNew]_vars

\* Lag probes: every configuration of up to MaxLagHandles lag targets and
\* every outcome of the connection attempts of initConnection.
LagTargets == {LagTarget(ds, abs, time) : ds \in BOOLEAN, abs \in BOOLEAN, time \in BOOLEAN}

LagOutcomes ==
    {[targets |-> t, handles |-> LagHandles(t, up, Len(t))] :
        t \in UNION {SeqsOfLen(LagTargets, n) : n \in 0..MaxLagHandles},
        up \in SUBSET (0..(MaxLagHandles - 1))}

InitLag ==
    /\ InitServing({0}, {0}, LagOutcomes, {"nil"}, {FALSE})
    /\ call = [c \in Callers |-> IdleCall]
    /\ returned = << >>
    /\ NoLogs
    /\ NoMigration

NextLag ==
    \/ \E op \in {"ReplicaLagAbs", "ReplicaLagTime"} : ReplicaLagCall(op)
    \/ ReplicaLagLoop

SpecLag == InitLag /\ [][NextLag]_vars

\* Opening the lag-probe connections: initConnection has connected the
\* master, no replica and no search replica is configured, and the loop
\* over settings.ReplicaLagSettings begins; every configuration of up to
\* MaxLagHandles lag targets.
InitLagLoop ==
    /\ \E t \in UNION {SeqsOfLen(LagTargets, n) : n \in 0..MaxLagHandles} :
          settings = [DataSourceReplicas |-> 0, DataSourceSearchReplicas |-> 0,
                      ReplicaLagSettings |-> t]
    /\ origin = "zero"
    /\ skipMigrations = FALSE
    /\ rrCounter = 0
    /\ srCounter = 0
    /\ masterX = newSqlxDBWrapper(Conn("master", 0, "init"))
    /\ ReplicaXs = << >>
    /\ searchReplicaXs = << >>
    /\ replicaLagHandles = << >>
    /\ lockedToMaster = FALSE
    /\ license = "nil"
    /\ quitMonitor = "open"
    /\ wgMonitor = 0
    /\ closedConns = {}
    /\ shortLived = {}
    /\ collectors = {<<Conn("master", 0, "init"), <<"master", 0>>>>}
    /\ mon = [pc |-> "unstarted", pool |-> "replica", idx |-> 0, handle |-> NoDB,
              late |-> FALSE]
    /\ call = [c \in Callers |-> IdleCall]
    /\ closer = [c \in Closers |-> "idle"]
    /\ recycler = "idle"
    /\ sleepTime = 0
    /\ returned = << >>
    /\ NoLogs
    /\ NoMigration
    /\ boot = [pc |-> "lag", i |-> 0, attempts |-> 0, ver |-> << >>,
               gate |-> "none", migrated |-> "no", err |-> NoError, up |-> {},
               stores |-> FALSE, from |-> NoWrapper]
    /\ lag = IdleLag

NextLagLoop ==
    \/ InitConnectionLag
    \/ NewStartMonitor

SpecLagLoop == InitLagLoop /\ [][NextLagLoop]_vars

\* Recycling: RecycleDBConnections runs while the monitor brings slots
\* online.
InitRecycle == InitStore({0}, {"nil"}, {FALSE})

NextRecycle ==
    \/ MonitorTick
    \/ MonitorSetup
    \/ MonitorSetDB
    \/ RecycleShorten
    \/ RecycleRestore

SpecRecycle == InitRecycle /\ [][NextRecycle]_vars

\* Replacing the master: SetMasterX is called at any moment of a run that
\* ends with Close.
NextMaster ==
    \/ NextShutdown
    \/ SetMasterX(Conn("master", 0, "caller"))

SpecMaster == InitShutdown /\ [][NextMaster]_vars

\* The routing flags: a reader calls GetReplica, GetSearchReplicaX,
\* GetInternalReplicaDB and GetLicense while another goroutine calls
\* LockToMaster, UnlockFromMaster and UpdateLicense; every access to
\* ss.license and ss.lockedToMaster is logged.
RoutingFlags == {"license", "lockedToMaster"}

InitRace ==
    /\ InitServing(0..MaxReplicas, 0..MaxSearchReplicas, {FullLag(0)}, {"nil"}, {FALSE})
    /\ call = [c \in Callers |-> IdleCall]
    /\ returned = << >>
    /\ accesses = [f \in RoutingFlags |-> {}]
    /\ tick = << >>
    /\ reachable = << >>
    /\ NoMigration

NextRace ==
    \/ \E c \in Callers : Reader(c)
    \/ \E c \in Callers : GetLicense(c)
    \/ LockToMaster
    \/ UnlockFromMaster
    \/ \E l \in {"nil", "license"} : UpdateLicense(l)

SpecRace == InitRace /\ [][NextRace]_vars

\* Serving until shutdown: a reader selects connections while the monitor
\* reconnects slots, and Close is called once.
InitServe == InitStore({0}, {"license"}, {FALSE})

NextServe ==
    \/ \E c \in Callers : Reader(c)
    \/ MonitorTick
    \/ MonitorQuit
    \/ MonitorSetup
    \/ MonitorSetDB
    \/ Close("close1")

SpecServe == InitServe /\ [][NextServe]_vars

\* Classifying errors: database errors with the codes store.go names and
\* with a unique-violation code, errors that do not come from the
\* database, and nil, each under up to MaxWraps errors.Wrap layers.
ErrorInputs ==
    {GoError("*pq.Error", code, w) :
        code \in {PGDupTableErrorCode, PGForeignKeyViolationErrorCode,
                  PGDuplicateObjectErrorCode, "23505"},
        w \in 0..MaxWraps}
      \cup {GoError("error", "", w) : w \in 0..MaxWraps}
      \cup {NilError}

InitClassify ==
    /\ InitServing({0}, {0}, {FullLag(0)}, {"nil"}, {FALSE})
    /\ call = [c \in Callers |-> IdleCall]
    /\ returned = << >>
    /\ NoLogs
    /\ migration = [kinds |-> << >>, objects |-> {}, records |-> << >>, run |-> << >>]
    /\ \E errs \in SeqsOfLen(ErrorInputs, MaxClassified) :
          classified = [errs |-> errs, results |-> << >>]

NextClassify == IsDuplicateCall

SpecClassify == InitClassify /\ [][NextClassify]_vars

\* Startup of two processes against an empty schema: no table or object
\* exists and the ledger is empty; every migration creates a table or
\* another object.
InitMigrate ==
    /\ InitServing({0}, {0}, {FullLag(0)}, {"nil"}, {FALSE})
    /\ call = [c \in Callers |-> IdleCall]
    /\ returned = << >>
    /\ NoLogs
    /\ classified = [errs |-> << >>, results |-> << >>]
    /\ \E kinds \in SeqsOfLen({"table", "object"}, MaxMigrations) :
          migration = [kinds |-> kinds, objects |-> {}, records |-> << >>,
                       run |-> [r \in Runs |-> IdleRun]]

NextMigrate ==
    \E r \in Runs :
        \/ MigrateStart(r)
        \/ MigrateCreate(r)
        \/ MigrateRecord(r)

SpecMigrate == InitMigrate /\ [][NextMigrate]_vars

\* The ticks of the monitor: the connection attempts of every tick are
\* logged, while other goroutines advance the rotation counters and change
\* the routing flags.
InitTick ==
    /\ InitServing(0..MaxReplicas, 0..MaxSearchReplicas, {FullLag(0)},
                   {"nil", "license"}, {FALSE})
    /\ call = [c \in Callers |-> IdleCall]
    /\ returned = << >>
    /\ accesses = << >>
    /\ tick = [s \in SlotKeys |->
                 [offline |-> ~Online(At(Slots(s[1]), s[2])), attempts |-> 0]]
    /\ reachable = << >>
    /\ NoMigration

NextTick ==
    \/ MonitorTick
    \/ MonitorSetup
    \/ MonitorSetDB
    \/ OtherGetReplicaAdd
    \/ OtherGetSearchReplicaXAdd
    \/ LockToMaster
    \/ UnlockFromMaster

SpecTick == InitTick /\ [][NextTick]_vars

\* Recovery: the monitor runs and Close is not called; the databases of
\* the slots stop and start answering at any moment.  The goroutine of the
\* monitor is scheduled and its ticker fires: a step of the monitor that
\* stays possible is eventually taken.
InitLive ==
    /\ InitServing(0..MaxReplicas, 0..MaxSearchReplicas, {FullLag(0)}, {"nil"}, {FALSE})
    /\ call = [c \in Callers |-> IdleCall]
    /\ returned = << >>
    /\ accesses = << >>
    /\ tick = << >>
    /\ reachable \in [SlotKeys -> BOOLEAN]
    /\ NoMigration

NextLive ==
    \/ MonitorTick
    \/ MonitorSetup
    \/ MonitorSetDB
    \/ \E s \in DOMAIN reachable : DatabaseChanges(s)

SpecLive ==
    /\ InitLive
    /\ [][NextLive]_vars
    /\ WF_vars(MonitorTick)
    /\ WF_vars(MonitorSetup)
    /\ WF_vars(MonitorSetDB)

\* A store that has served for long: readers call while the rotation
\* counters pass MaxInt64.  A license is set and the store is not locked.
InitWrap ==
    /\ InitServingFrom({"zero", "MaxInt64"}, 1..MaxReplicas, 0..MaxSearchReplicas,
                       {FullLag(0)}, {"license"}, {FALSE})
    /\ call = [c \in Callers |-> IdleCall]
    /\ returned = << >>
    /\ NoLogs
    /\ NoMigration

NextWrap ==
    \/ \E c \in Callers : Reader(c)
    \/ OtherGetReplicaAdd
    \/ OtherGetSearchReplicaXAdd

SpecWrap == InitWrap /\ [][NextWrap]_vars

\* Shutdown under fair scheduling: Close is called once while the monitor
\* runs.  The goroutine in Close is scheduled; every connection attempt
\* and publication of the monitor completes; select chooses at random
\* among its ready cases, so a monitor that is at the select again and
\* again while quitMonitor is closed takes the quit case in the end.  The
\* ticker may fire at any time or not at all.
Closer == "close1"

NextCloseLive ==
    \/ MonitorTick
    \/ MonitorQuit
    \/ MonitorSetup
    \/ MonitorSetDB
    \/ Close(Closer)

SpecCloseLive ==
    /\ InitShutdown
    /\ [][NextCloseLive]_vars
    /\ WF_vars(Close(Closer))
    /\ WF_vars(MonitorSetup)
    /\ WF_vars(MonitorSetDB)
    /\ SF_vars(MonitorQuit)

(* ------------------------------ claims -------------------------------- *)
Done(c, op) == call[c].pc = "done" /\ call[c].op = op

\* The wrappers held by the slots of a pool.
Held(slots) == {slots[k] : k \in 1..Len(slots)}

\* C1: with a license set and not locked to master, a wrapper GetReplica
\* returns is the master or an online wrapper held by a read slot, never
\* the wrapper of an offline slot; and when every read slot is offline
\* the call returns the master.
C1_OfflineNeverReturned ==
    \A c \in Callers :
        Done(c, "GetReplica") /\ hasLicense /\ ~lockedToMaster =>
            /\ call[c].result # masterX =>
                   Online(call[c].result) /\ call[c].result \in Held(ReplicaXs)
            /\ ~AnyOnline(ReplicaXs) => call[c].result = masterX

\* C1, witness: GetReplica has returned a read replica while another read
\* slot is offline.
C1_Witness ==
    \E c \in Callers :
        /\ Done(c, "GetReplica")
        /\ call[c].result \in Held(ReplicaXs)
        /\ \E k \in 1..Len(ReplicaXs) : ~Online(ReplicaXs[k])

\* C2: a GetReplica call made with a license set, not locked to master
\* and a read slot online during the whole call returns an online
\* replica, not the master, also when other calls advance rrCounter.
C2_ProbesUntilOnline ==
    \A c \in Callers :
        Done(c, "GetReplica") /\ call[c].env = "routed_on" =>
            call[c].result # masterX

\* C3: GetReplica returns the master when the license is unset, or the
\* store is locked to master, or no read replica is configured, whatever
\* the state of the slots.
C3_PrimaryWhenNotRouted ==
    \A c \in Callers :
        /\ Done(c, "GetReplica")
        /\ \/ call[c].env \in {"locked", "nolicense"}
           \/ settings.DataSourceReplicas = 0
        => call[c].result = masterX

\* C3, witness: a GetReplica call made while locked to master has returned
\* with a license set and a read slot online.
C3_Witness ==
    \E c \in Callers :
        /\ Done(c, "GetReplica")
        /\ call[c].env = "locked"
        /\ hasLicense
        /\ AnyOnline(ReplicaXs)

\* C4: a GetReplica or GetSearchReplicaX call made while the store is
\* locked to master returns the master.
C4_LockedReadsPrimary ==
    \A c \in Callers :
        /\ call[c].pc = "done"
        /\ call[c].op \in {"GetReplica", "GetSearchReplicaX"}
        /\ call[c].env = "locked"
        => call[c].result = masterX

\* C5: with a license set, not locked to master, no search replica
\* configured and a read slot online, GetSearchReplicaX returns an online
\* read replica, not the master.
C5_SearchUsesReadReplica ==
    \A c \in Callers :
        /\ Done(c, "GetSearchReplicaX")
        /\ call[c].env = "routed_on"
        /\ settings.DataSourceSearchReplicas = 0
        => /\ call[c].result # masterX
           /\ Online(call[c].result)
           /\ call[c].result \in Held(ReplicaXs)

\* The connections of the read, search and lag pools that are closed.
ClosedPoolConns == {d \in closedConns : d.pool # "master"}

\* C6: in Close the master is closed, then the stop is signalled, then
\* Close waits for the monitor, and only then are replica, search-replica
\* and lag-probe connections closed; none of them is closed while the
\* monitor is running.
C6_CloseOrder ==
    /\ \A c \in Closers :
           /\ closer[c] \notin {"idle", "panic"} => masterX.DB \in closedConns
           /\ closer[c] \in {"wait", "replicas", "search", "lag", "returned"} =>
                  quitMonitor = "closed"
           /\ closer[c] \in {"replicas", "search", "lag", "returned"} =>
                  mon.pc = "exited"
    /\ ClosedPoolConns # {} =>
           /\ masterX.DB \in closedConns
           /\ quitMonitor = "closed"
           /\ mon.pc = "exited"

\* C6, witness: Close has closed a read replica and a lag-probe connection.
C6_Witness ==
    /\ \E d \in closedConns : d.pool = "replica"
    /\ \E d \in closedConns : d.pool = "lag"

\* C7: Close returns only after the monitor has left its loop, and once
\* Close has returned the monitor takes no step: no connection attempt, no
\* store into a slot.
C7_CloseWaitsForMonitor ==
    [][(\E c \in Closers : closer[c] = "returned") =>
           /\ mon.pc = "exited"
           /\ UNCHANGED <<mon, ReplicaXs, searchReplicaXs, collectors, wgMonitor>>]_vars

\* C7, witness: Close has returned after a monitor tick that was in
\* progress during the call published a wrapper.
C7_Witness ==
    /\ \E c \in Closers : closer[c] = "returned"
    /\ mon.late

\* C8: signalling the stop a second time (a second Close) does not panic.
C8_StopIdempotent ==
    \A c \in Closers : closer[c] # "panic"

\* One slot in one step: its online flag is never cleared, and it goes
\* from offline to online only by the monitor publishing, for this slot,
\* the connection of a successful SetupConnection.
SlotStep(pool, k, old, new) ==
    /\ Online(old) => Online(new)
    /\ ~Online(old) /\ Online(new) =>
           /\ mon.pc = "setDB"
           /\ mon.pool = pool
           /\ mon.idx = k - 1
           /\ mon.handle # NoDB
           /\ new.DB = mon.handle

\* C9: a slot of the read or search set goes from offline to online only
\* in a monitor tick, after a successful reconnect for that slot, and no
\* operation changes a slot from online to offline.
C9_SlotTransitions ==
    [][/\ Len(ReplicaXs') = Len(ReplicaXs)
       /\ Len(searchReplicaXs') = Len(searchReplicaXs)
       /\ \A k \in 1..Len(ReplicaXs) :
              SlotStep("replica", k, ReplicaXs[k], ReplicaXs'[k])
       /\ \A k \in 1..Len(searchReplicaXs) :
              SlotStep("search", k, searchReplicaXs[k], searchReplicaXs'[k])]_vars

\* C9, witness: the monitor has brought a read slot online while the
\* connections were being recycled.
C9_Witness ==
    /\ \E k \in 1..Len(ReplicaXs) : ReplicaXs[k].DB.by = "monitor"
    /\ recycler = "sleep"

\* C10: once the monitor has published a wrapper in read slot i, a
\* GetReplica call whose rotation index is i finds the slot online and
\* returns that wrapper.
C10_RecoveredSlotReturned ==
    [][\A c \in Callers :
          /\ (/\ call[c].pc = "rr_online"
              /\ At(ReplicaXs, call[c].rrNum).DB.by = "monitor"
              /\ call'[c] # call[c])
             => call'[c].pc = "rr_load"
          /\ (/\ call[c].pc = "rr_load"
              /\ call'[c] # call[c])
             => /\ call'[c].pc = "done"
                /\ call'[c].result = At(ReplicaXs, call[c].rrNum)
                /\ Online(call'[c].result)]_vars

\* C10, witness: GetReplica has returned a wrapper that the monitor
\* published.
C10_Witness ==
    \E c \in Callers :
        /\ Done(c, "GetReplica")
        /\ call[c].result.DB.by = "monitor"
        /\ call[c].result \in Held(ReplicaXs)

\* C11: with a license set, not locked to master and every read slot
\* online, whenever no GetReplica call is in flight the numbers of times
\* any two read slots have been returned differ by at most 1.
C11_FairRotation ==
    (\A c \in DOMAIN call : call[c].pc \in {"idle", "done"}) =>
        \A j, k \in DOMAIN returned : returned[j] - returned[k] <= 1

\* C11, witness: concurrent calls have completed, none is in flight, and
\* of two read slots one has been returned twice and the other once.
C11_Witness ==
    /\ \A c \in DOMAIN call : call[c].pc = "done"
    /\ \E j, k \in DOMAIN returned : returned[j] = 2 /\ returned[k] = 1

\* The wrapper initConnection must have left in slot i of a pool, given the
\* connections that succeeded.
ExpectedSlot(pool, i) ==
    IF <<pool, i>> \in boot.up
    THEN [DB |-> Conn(pool, i, "init"), isOnline |-> TRUE]
    ELSE [DB |-> NoDB, isOnline |-> FALSE]

\* C12: initConnection fails only when the master does not connect; when
\* it returns, every configured replica and search replica has a slot,
\* which holds an online handle if its connection succeeded and an offline
\* placeholder if it failed, whatever lag-probe connections failed.
C12_InitConnectionDegrades ==
    /\ boot.pc = "failed" /\ boot.err.wrap = "error setting up connections" =>
           masterX = NoWrapper
    /\ boot.pc = "monitor" =>
           /\ Online(masterX)
           /\ Len(ReplicaXs) = settings.DataSourceReplicas
           /\ Len(searchReplicaXs) = settings.DataSourceSearchReplicas
           /\ \A k \in 1..Len(ReplicaXs) : ReplicaXs[k] = ExpectedSlot("replica", k - 1)
           /\ \A k \in 1..Len(searchReplicaXs) :
                  searchReplicaXs[k] = ExpectedSlot("search", k - 1)

\* C12, witness: initConnection has returned with one replica connected,
\* one replica failed, and a lag-probe connection failed.
C12_Witness ==
    /\ boot.pc = "monitor"
    /\ \E k \in 1..Len(ReplicaXs) : Online(ReplicaXs[k])
    /\ \E k \in 1..Len(ReplicaXs) : ~Online(ReplicaXs[k])
    /\ \E k \in 1..Len(settings.ReplicaLagSettings) :
           settings.ReplicaLagSettings[k].DataSource /\ <<"lag", k - 1>> \notin boot.up

\* C13: when the master has failed DBPingAttempts pings New has failed: no
\* store, no replica, search-replica or lag-probe connection, no monitor;
\* and without a master connection New is nowhere past the master.
C13_PrimaryUnreachableFatal ==
    /\ boot.attempts = DBPingAttempts =>
           /\ boot.pc = "failed"
           /\ boot.err # NoError
           /\ ~boot.stores
           /\ masterX = NoWrapper
           /\ ReplicaXs = << >> /\ searchReplicaXs = << >> /\ replicaLagHandles = << >>
           /\ boot.up = {}
           /\ collectors = {}
           /\ mon.pc = "unstarted" /\ wgMonitor = 0
    /\ masterX = NoWrapper => boot.pc \in {"master", "failed"}

\* C13, witness: the master has failed all its pings.
C13_Witness ==
    /\ boot.attempts = DBPingAttempts
    /\ boot.pc = "failed"

\* The versions of the claim, with their numbers and their major.minor form.
VersionCases ==
    { [ver |-> <<"1", "2", "0", "0", "0", "0">>, num |-> 120000,
       shown |-> <<"1", "2", ".", "0">>],
      [ver |-> <<"1", "2", "9", "9", "9", "9">>, num |-> 129999,
       shown |-> <<"1", "2", ".", "9", "9", "9", "9">>],
      [ver |-> <<"1", "3", "0", "0", "0", "0">>, num |-> 130000,
       shown |-> <<"1", "3", ".", "0">>],
      [ver |-> <<"1", "3", "0", "0", "0", "1">>, num |-> 130001,
       shown |-> <<"1", "3", ".", "1">>],
      [ver |-> <<"9", "0", "6", "0", "3">>, num |-> 90603,
       shown |-> <<"9", ".", "6", "0", "3">>] }

\* C14: the version gate passes exactly when the reported version is at
\* least 130000; when it fails for version v the message carries v and
\* 130000 as major.minor ("12.0" and "13.0" for 120000); a version string
\* that is not an integer is rejected with an error.
C14_VersionGate ==
    boot.gate # "none" =>
        /\ \A c \in VersionCases :
               boot.ver = c.ver =>
                   /\ (boot.gate = "ok") = (c.num >= 130000)
                   /\ boot.gate = "failed" =>
                          boot.err.args = <<c.shown, <<"1", "3", ".", "0">>>>
        /\ boot.ver \notin {c.ver : c \in VersionCases} =>
               /\ boot.gate = "failed"
               /\ boot.err.text = "cannot parse DB version: %v"

\* C14, witness: version 120000 has been rejected and New has failed.
C14_Witness ==
    /\ boot.ver = <<"1", "2", "0", "0", "0", "0">>
    /\ boot.gate = "failed"
    /\ boot.pc = "failed"

\* C15: the entity stores are constructed only after the version gate has
\* passed and the migration run has completed without error; with
\* SkipMigrations the migration run is never invoked and the gate is still
\* enforced: a failed gate fails New.
C15_StoresAfterGateAndMigrations ==
    /\ boot.stores =>
           /\ boot.gate = "ok"
           /\ boot.migrated = (IF skipMigrations THEN "no" ELSE "ok")
    /\ skipMigrations => boot.migrated = "no" /\ boot.pc # "migrate"
    /\ boot.gate = "failed" => boot.pc = "failed" /\ ~boot.stores

\* C15, witness: New has constructed the stores with SkipMigrations.
C15_Witness ==
    /\ boot.stores
    /\ skipMigrations
    /\ boot.pc = "returned"

\* C16: the monitor is started only after the version gate has passed and
\* the migrations have succeeded.
C16_MonitorAfterGate ==
    mon.pc # "unstarted" =>
        /\ boot.gate = "ok"
        /\ skipMigrations \/ boot.migrated = "ok"

\* Every lag target has its connection, at its own index.
LagAligned ==
    /\ Len(replicaLagHandles) = Len(settings.ReplicaLagSettings)
    /\ \A k \in 1..Len(replicaLagHandles) : replicaLagHandles[k].slot = k - 1

\* C17: when ReplicaLagAbs or ReplicaLagTime has returned, the query of
\* every configured target that has one has been run, also after the query
\* of an earlier target failed (stated for the stores in which every
\* target has its connection).
C17_LagProbesAllTargets ==
    lag.pc = "returned" /\ LagAligned =>
        \A k \in 1..Len(settings.ReplicaLagSettings) :
            HasQuery(lag.op, settings.ReplicaLagSettings[k]) => (k - 1) \in lag.attempted

\* C18: the first pass of RecycleDBConnections shortens the lifetime of the
\* master, of every online read replica and of every online search replica.
C18_RecycleShortensAll ==
    [][recycler = "idle" /\ recycler' = "sleep" =>
           ({masterX.DB} \cup OnlineDBs(ReplicaXs) \cup OnlineDBs(searchReplicaXs))
               \subseteq shortLived']_vars

\* C19: when RecycleDBConnections returns, no connection is left with the
\* shortened lifetime, and the sleep between the two passes lasted at least
\* the recycle duration, also when the monitor brought slots online
\* between the passes.
C19_RecycleRestores ==
    [][recycler = "sleep" /\ recycler' = "idle" =>
           /\ shortLived' = {}
           /\ sleepTime >= RecycleDuration]_vars

\* C19, witness: after the first pass the monitor has brought a read slot
\* online, whose connection was not shortened; the second pass is next.
C19_Witness ==
    /\ recycler = "sleep"
    /\ shortLived # {}
    /\ \E k \in 1..Len(ReplicaXs) :
           /\ ReplicaXs[k].DB.by = "monitor"
           /\ ReplicaXs[k].DB \notin shortLived

\* A handle that held a connection is replaced only with the connection
\* closed in the same step.
ReplacedClosed(old, new) ==
    old # new /\ old.DB.pool \notin {"nil", "none"} => old.DB \in closedConns'

\* C20: whenever the handle held by the master or by a slot is replaced,
\* the connection of the replaced handle is closed by the replacer.
C20_ReplacedHandleClosed ==
    [][/\ ReplacedClosed(masterX, masterX')
       /\ \A k \in 1..Len(ReplicaXs) : ReplacedClosed(ReplicaXs[k], ReplicaXs'[k])
       /\ \A k \in 1..Len(searchReplicaXs) :
              ReplacedClosed(searchReplicaXs[k], searchReplicaXs'[k])]_vars

\* C21: the license and the locked-to-master flag are guarded by
\* licenseMutex: whenever one goroutine writes a flag and another goroutine
\* reads or writes the same flag, both accesses are made with the mutex
\* held.
C21_FlagsGuardedByMutex ==
    \A f \in DOMAIN accesses :
        \A a \in accesses[f], b \in accesses[f] :
            (a.kind = "write" /\ a.by # b.by) => (a.mutex /\ b.mutex)

\* A wrapper as initConnection and setDB construct it: the offline
\* placeholder, or an online wrapper around a connection.
FullyFormed(w) ==
    \/ w = OfflineWrapper
    \/ /\ w.DB # NoDB
       /\ w = newSqlxDBWrapper(w.DB)

\* C22: a slot changes only by the replacement of its wrapper with a
\* complete new one: every wrapper a slot holds is the offline placeholder
\* or an online wrapper with its connection set, a slot that changes holds
\* the wrapper of the connection the monitor has just opened, and the load
\* of GetReplica / GetSearchReplicaX returns the wrapper the slot holds at
\* that moment, which is online and has its connection set.
C22_AtomicPublish ==
    [][/\ \A w \in Held(ReplicaXs') \cup Held(searchReplicaXs') : FullyFormed(w)
       /\ \A k \in 1..Len(ReplicaXs) :
              ReplicaXs'[k] # ReplicaXs[k]
                 => ReplicaXs'[k] = newSqlxDBWrapper(Conn("replica", k - 1, "monitor"))
       /\ \A k \in 1..Len(searchReplicaXs) :
              searchReplicaXs'[k] # searchReplicaXs[k]
                 => searchReplicaXs'[k] = newSqlxDBWrapper(Conn("search", k - 1, "monitor"))
       /\ \A c \in Callers :
              (call[c].pc \in {"rr_load", "sr_load"} /\ call'[c] # call[c])
                 => LET slots == IF call[c].pc = "rr_load" THEN ReplicaXs
                                 ELSE searchReplicaXs
                    IN  /\ call'[c].result = At(slots, call[c].rrNum)
                        /\ Online(call'[c].result)
                        /\ call'[c].result.DB # NoDB]_vars

\* C22, witness: GetSearchReplicaX has returned the wrapper the monitor
\* published in a search slot.
C22_Witness ==
    \E c \in Callers :
        /\ Done(c, "GetSearchReplicaX")
        /\ call[c].result = newSqlxDBWrapper(Conn("search", 0, "monitor"))

\* C23: once initConnection has connected the master and has filled the
\* pools, the number of read slots
\* is the number of configured read replicas and the number of search
\* slots the number of configured search replicas, under every step of
\* the readers, the monitor and Close, and every slot holds a wrapper.
C23_SlotCountsFixed ==
    (boot.pc \notin {"master", "replicas", "search"} /\ masterX # NoWrapper) =>
        /\ Len(ReplicaXs) = settings.DataSourceReplicas
        /\ Len(searchReplicaXs) = settings.DataSourceSearchReplicas
        /\ \A w \in Held(ReplicaXs) \cup Held(searchReplicaXs) : w # NoWrapper

\* C23, witness: the monitor has replaced the wrapper of a read slot, a
\* reader has returned from a call and Close has returned.
C23_Witness ==
    /\ \E k \in 1..Len(ReplicaXs) : ReplicaXs[k].DB.by = "monitor"
    /\ \E c \in Callers : call[c].pc = "done"
    /\ \E c \in Closers : closer[c] = "returned"

\* The errors of the "already exists" classes: a database error whose code
\* is duplicate_table or duplicate_object.
DuplicateClass(err) ==
    /\ err.type = "*pq.Error"
    /\ err.Code \in {"42P07", "42710"}

C26_VersionFromPrimary ==
    (boot.pc = "gate" \/ boot.gate # "none") =>
        /\ boot.from = masterX
        /\ boot.from = newSqlxDBWrapper(Conn("master", 0, "init"))

\* C26, witness: the gate has passed a version although every configured
\* read replica and search replica was online when it was read.
C26_Witness ==
    /\ boot.gate = "ok"
    /\ boot.from = masterX
    /\ Len(ReplicaXs) = MaxReplicas
    /\ \A k \in 1..Len(ReplicaXs) : Online(ReplicaXs[k])
    /\ Len(searchReplicaXs) = MaxSearchReplicas
    /\ \A k \in 1..Len(searchReplicaXs) : Online(searchReplicaXs[k])

\* C27: when the loop over the lag targets has ended, initConnection has
\* not failed, and every target for which a lag-probe connection was
\* opened has a non-empty lag query.
C27_LagConnectionsForQueries ==
    boot.pc # "lag" =>
        /\ boot.pc # "failed"
        /\ \A i \in 0..(Len(settings.ReplicaLagSettings) - 1) :
              <<"lag", i>> \in boot.up
                 => \/ At(settings.ReplicaLagSettings, i).QueryAbsoluteLag
                    \/ At(settings.ReplicaLagSettings, i).QueryTimeLag

\* The step with which a tick of the monitor ends.
TickEnds == mon.pc # "select" /\ mon'.pc = "select"

\* C28: a failed reconnect leaves the slot as it was, offline, and the
\* tick goes on: when the tick ends, a connection attempt has been made
\* for every slot of the read and search sets that was offline when it
\* began, whatever attempts failed, and the monitor waits for the next
\* tick.
C28_FailedReconnectSkipped ==
    [][/\ (/\ mon.pc = "setup"
           /\ ~Online(At(Slots(mon.pool), mon.idx))
           /\ mon' # mon
           /\ mon'.pc # "setDB")
          => /\ ReplicaXs' = ReplicaXs
             /\ searchReplicaXs' = searchReplicaXs
             /\ At(Slots(mon.pool), mon.idx) = OfflineWrapper
             /\ mon'.pc \in {"setup", "select"}
       /\ TickEnds
          => \A s \in DOMAIN tick : tick[s].offline => tick'[s].attempts >= 1]_vars

\* C28, witness: a tick has ended in which the reconnect of read slot 0
\* failed and the search slot, attempted after it, came online.
C28_Witness ==
    /\ mon.pc = "select"
    /\ <<"replica", 0>> \in DOMAIN tick
    /\ tick[<<"replica", 0>>].attempts = 1
    /\ ~Online(ReplicaXs[1])
    /\ <<"search", 0>> \in DOMAIN tick
    /\ tick[<<"search", 0>>].offline
    /\ tick[<<"search", 0>>].attempts = 1
    /\ Online(searchReplicaXs[1])

\* C29: in a tick the monitor makes one connection attempt for every slot
\* that was offline when the tick began and none for a slot that was
\* online, and no step of the monitor changes the wrapper of an online
\* slot, the master, the rotation counters, the license or
\* lockedToMaster.
C29_TickFrame ==
    [][/\ TickEnds
          => \A s \in DOMAIN tick :
                tick'[s].attempts = IF tick[s].offline THEN 1 ELSE 0
       /\ mon' # mon
          => /\ UNCHANGED <<masterX, rrCounter, srCounter, license, lockedToMaster>>
             /\ \A k \in 1..Len(ReplicaXs) :
                   Online(ReplicaXs[k]) => ReplicaXs'[k] = ReplicaXs[k]
             /\ \A k \in 1..Len(searchReplicaXs) :
                   Online(searchReplicaXs[k]) => searchReplicaXs'[k] = searchReplicaXs[k]]_vars

\* C29, witness: a tick has ended that made no attempt for the online read
\* slot 0 and one attempt for the offline read slot 1, after the rotation
\* counter had been advanced and the store locked to the master.
C29_Witness ==
    /\ mon.pc = "select"
    /\ <<"replica", 1>> \in DOMAIN tick
    /\ ~tick[<<"replica", 0>>].offline
    /\ tick[<<"replica", 0>>].attempts = 0
    /\ tick[<<"replica", 1>>].offline
    /\ tick[<<"replica", 1>>].attempts = 1
    /\ rrCounter > 0
    /\ lockedToMaster

\* Every slot a configuration within the bounds can have.
AllSlotKeys ==
    {<<"replica", i>> : i \in 0..(MaxReplicas - 1)}
        \cup {<<"search", i>> : i \in 0..(MaxSearchReplicas - 1)}

\* C30: when Close is never called and the monitor is scheduled fairly, a
\* configured slot whose database answers from some point on is
\* eventually online, however many reconnects failed before.
C30_OfflineSlotRecovers ==
    \A s \in AllSlotKeys :
        <>[](s \in DOMAIN reachable /\ reachable[s])
           => <>(s \in DOMAIN reachable /\ Online(At(Slots(s[1]), s[2])))

\* C30, witness: the monitor has brought online a search slot whose
\* database answers, while the database of read slot 0, still offline,
\* does not.
C30_Witness ==
    /\ <<"search", 0>> \in DOMAIN reachable
    /\ <<"replica", 0>> \in DOMAIN reachable
    /\ reachable[<<"search", 0>>]
    /\ searchReplicaXs[1] = newSqlxDBWrapper(Conn("search", 0, "monitor"))
    /\ ~reachable[<<"replica", 0>>]
    /\ ~Online(ReplicaXs[1])

\* The positions of a call inside the loop of GetReplica and inside the
\* loop of GetSearchReplicaX.
ReadLoop == {"rr_add", "rr_online", "rr_load"}
SearchLoop == {"sr_add", "sr_online", "sr_load"}

\* One step of the program seen from call c: a probe is one increment of
\* the pool's counter followed by one inspection of a slot.  The probe
\* number i stays below the number of slots of the pool, rises by one on
\* every failed probe, starts at zero when a loop is entered, and the
\* search loop is not entered again once GetReplica has been called.
ProbesBounded(c) ==
    /\ call[c].pc = "rr_add" /\ call'[c].pc # "rr_add" =>
          /\ call[c].i < Len(ReplicaXs)
          /\ rrCounter' = rrCounter + 1
          /\ call'[c].pc = "rr_online"
    /\ call[c].pc = "sr_add" /\ call'[c].pc # "sr_add" =>
          /\ call[c].i < Len(searchReplicaXs)
          /\ srCounter' = srCounter + 1
          /\ call'[c].pc = "sr_online"
    /\ call[c].pc = "rr_online" /\ call'[c].pc = "rr_add" =>
          call'[c].i = call[c].i + 1
    /\ call[c].pc = "sr_online" /\ call'[c].pc = "sr_add" =>
          call'[c].i = call[c].i + 1
    /\ call[c].pc \notin ReadLoop /\ call'[c].pc = "rr_add" => call'[c].i = 0
    /\ call[c].pc \notin SearchLoop /\ call'[c].pc = "sr_add" =>
          call'[c].i = 0 /\ call[c].pc \in {"idle", "done"}
    /\ call[c].pc \in {"rr_online", "sr_online"} /\ call'[c] # call[c] =>
          /\ rrCounter' = rrCounter
          /\ srCounter' = srCounter

\* A running call can take its next step whatever the monitor is doing
\* (the counters of the model stop at MaxCounter).
NeverWaits(c) ==
    InFlight(c) /\ rrCounter < MaxCounter /\ srCounter < MaxCounter =>
        ENABLED Reader(c)

\* C31: GetReplica ends after at most len(ReplicaXs) probes and
\* GetSearchReplicaX after at most len(searchReplicaXs) + len(ReplicaXs)
\* probes, each probe being one counter increment and one slot inspection,
\* also when every slot is offline and while other calls and the monitor
\* run; no step of a call waits for the monitor.
C31_BoundedProbes ==
    /\ [][\A c \in Callers : ProbesBounded(c)]_vars
    /\ [](\A c \in Callers : NeverWaits(c))

\* C31, witness: with every read and search slot offline, a
\* GetSearchReplicaX call is at its last probe of the read pool while the
\* monitor is in the middle of a connection attempt.
C31_Witness ==
    \E c \in Callers :
        /\ call[c].op = "GetSearchReplicaX"
        /\ call[c].pc = "rr_online"
        /\ call[c].i + 1 = Len(ReplicaXs)
        /\ Len(ReplicaXs) = MaxReplicas
        /\ Len(searchReplicaXs) = MaxSearchReplicas
        /\ ~AnyOnline(ReplicaXs)
        /\ ~AnyOnline(searchReplicaXs)
        /\ mon.pc # "select"

\* A GetSearchReplicaX call that has returned while a license is set, a
\* search replica is configured and every search slot is offline: the
\* wrapper is the one GetReplica yields, an online wrapper of a read slot
\* or the master, and the master when no read slot is online, when the
\* store is locked to master or when no read replica is configured.
SearchFallsBack(c) ==
    /\ Done(c, "GetSearchReplicaX")
    /\ hasLicense
    /\ settings.DataSourceSearchReplicas > 0
    /\ ~AnyOnline(searchReplicaXs)
    => /\ \/ call[c].result = masterX
          \/ Online(call[c].result) /\ call[c].result \in Held(ReplicaXs)
       /\ ~AnyOnline(ReplicaXs) \/ GetReplicaLocked => call[c].result = masterX

\* One step of call c: the last failed probe of the search loop calls
\* GetReplica, and a call entered without a license returns the master in
\* that step with both counters as they were.
SearchFallbackStep(c) ==
    /\ /\ call[c].pc = "sr_online"
       /\ call'[c] # call[c]
       /\ ~ProbeOnline(searchReplicaXs, call[c].rrNum)
       /\ call[c].i + 1 = Len(searchReplicaXs)
       => call'[c].pc = "rr_guard"
    /\ /\ call[c].pc \in {"idle", "done"}
       /\ call'[c] # call[c]
       /\ call'[c].op = "GetSearchReplicaX"
       /\ ~hasLicense
       => /\ call'[c].pc = "done"
          /\ call'[c].result = masterX
          /\ rrCounter' = rrCounter
          /\ srCounter' = srCounter

\* C32: with a license set and a search replica configured, when every
\* search slot is offline GetSearchReplicaX falls back to GetReplica and
\* returns an online read replica or the master; without a license it
\* returns the master and leaves rrCounter and srCounter untouched.
C32_SearchFallback ==
    /\ [](\A c \in Callers : SearchFallsBack(c))
    /\ [][\A c \in Callers : SearchFallbackStep(c)]_vars

\* C32, witness: every search slot is offline and GetSearchReplicaX has
\* returned an online read replica.
C32_Witness ==
    \E c \in Callers :
        /\ Done(c, "GetSearchReplicaX")
        /\ hasLicense
        /\ settings.DataSourceSearchReplicas > 0
        /\ ~AnyOnline(searchReplicaXs)
        /\ call[c].result # masterX
        /\ Online(call[c].result)
        /\ call[c].result \in Held(ReplicaXs)

\* The connections initConnection has opened and the store still holds.
OpenedByInit ==
    (IF masterX = NoWrapper THEN {} ELSE {masterX.DB})
        \cup OnlineDBs(ReplicaXs) \cup OnlineDBs(searchReplicaXs)
        \cup {replicaLagHandles[k] : k \in 1..Len(replicaLagHandles)}

\* C33: when New returns an error after initConnection has returned (the
\* version query failed, the version is below the minimum, or a migration
\* failed), the monitor goroutine is not running and every connection
\* initConnection opened has been closed.
C33_FailedNewReleases ==
    /\ boot.pc = "failed"
    /\ masterX # NoWrapper
    => /\ mon.pc \in {"unstarted", "exited"}
       /\ wgMonitor = 0
       /\ OpenedByInit \subseteq closedConns

\* C34: ReplicaLagAbs and ReplicaLagTime never index outside
\* replicaLagHandles, and the query of target i is run on the connection
\* that was opened for target i, whichever targets initConnection skipped
\* or failed to connect.
C34_LagQueryOnOwnConnection ==
    /\ lag.pc # "panic"
    /\ \A f \in lag.forwarded : f.handle = Conn("lag", f.target, "init")

\* C35: when Close has returned, the connection of every online wrapper
\* held by a read or search slot is closed, the wrappers the monitor
\* published during the call included, and so is every lag-probe
\* connection.
C35_CloseClosesAll ==
    (\E c \in Closers : closer[c] = "returned") =>
        /\ \A k \in 1..Len(ReplicaXs) :
               Online(ReplicaXs[k]) => ReplicaXs[k].DB \in closedConns
        /\ \A k \in 1..Len(searchReplicaXs) :
               Online(searchReplicaXs[k]) => searchReplicaXs[k].DB \in closedConns
        /\ \A k \in 1..Len(replicaLagHandles) : replicaLagHandles[k] \in closedConns

\* C35, witness: Close has returned; a read slot holds a wrapper the
\* monitor published after Close had begun, and a lag-probe connection
\* exists.
C35_Witness ==
    /\ \E c \in Closers : closer[c] = "returned"
    /\ mon.late
    /\ \E k \in 1..Len(ReplicaXs) :
          Online(ReplicaXs[k]) /\ ReplicaXs[k].DB.by = "monitor"
    /\ Len(replicaLagHandles) > 0

\* C36: GetInternalReplicaDB does not fail on an offline slot and does not
\* return the connection of one: with a license set, not locked to master
\* and read replicas configured it returns the connection of an online
\* read replica, or of the master when the selected slot is offline.
C36_InternalReplicaOnline ==
    \A c \in Callers :
        /\ call[c].op = "GetInternalReplicaDB" => call[c].pc # "panic"
        /\ Done(c, "GetInternalReplicaDB") /\ hasLicense /\ ~lockedToMaster =>
               \/ call[c].result = masterX
               \/ Online(call[c].result) /\ call[c].result \in Held(ReplicaXs)

\* C37: the slot index a call computes from a rotation counter, the
\* counter modulo the number of slots, lies in 0..len-1 for every value
\* of the counter, the values after the wrap past MaxInt64 included.
C37_IndexInRange ==
    \A c \in Callers :
        /\ call[c].pc \in {"rr_online", "rr_load", "ir_load"} =>
               InRange(ReplicaXs, call[c].rrNum)
        /\ call[c].pc \in {"sr_online", "sr_load"} =>
               InRange(searchReplicaXs, call[c].rrNum)

\* C38: Close terminates.  Once Close has been called, the monitor
\* observes the closed quitMonitor and exits, and Close returns; Close and
\* a monitor tick in progress do not block each other.
C38_CloseTerminates ==
    /\ (closer[Closer] # "idle") ~> (closer[Closer] = "returned")
    /\ (quitMonitor = "closed") ~> (mon.pc = "exited" /\ wgMonitor = 0)

\* C38, witness: Close is blocked in wgMonitor.Wait() while the monitor is
\* about to publish the connection of an attempt that succeeded.
C38_Witness ==
    /\ closer[Closer] = "wait"
    /\ quitMonitor = "closed"
    /\ mon.pc = "setDB"

\* C39: the metrics label of a slot is the same on every path.  The
\* collector of a handle held by slot i of a pool carries the label
\* initConnection gives that slot, also when the monitor published the
\* handle; and no collector is left registered for a handle the monitor
\* replaced, as happens when it unregisters under another label.
C39_OneLabelPerSlot ==
    \A p \in collectors :
        p[1].pool \in {"replica", "search"} =>
            /\ p[2] = InitLabel(p[1].pool, p[1].slot)
            /\ \E k \in 1..Len(Slots(p[1].pool)) : Slots(p[1].pool)[k].DB = p[1]
====
